---------------------------- MODULE Spec2Model ----------------------------
(***************************************************************************)
(* A model of branch-navigator: the Branch Navigator (internal/navigator), *)
(* the Repository Client (internal/git), the Action Orchestrator           *)
(* (internal/app) and the terminal UI (internal/ui).                       *)
(*                                                                         *)
(* Strings are sequences of one-character strings, so that TrimSpace,      *)
(* ToLower, Contains and Sprintf are computed and not assumed.             *)
(***************************************************************************)
EXTENDS Integers, Sequences, FiniteSets, TLC

VARIABLES
    \* ---- Navigator.RecentBranches (src/internal/git/git.go:513-580)
    navPc,
    gitFailures,   \* the errors the GitService answered with, in order            \* position inside RecentBranches
    limit,            \* the limit argument
    existing,         \* the names for which GitService.BranchExists answers true
    current,          \* the answer of GitService.CurrentBranch
    reflogBranches,   \* the answer of GitService.ReflogBranchMoves
    fallbackBranches, \* the answer of GitService.BranchesByCommitDate
    results,          \* the results slice
    seen,             \* the seen map (its key set)
    navErr,           \* the error RecentBranches returns
    gitCalls          \* every GitService call made, in order

navVars == <<navPc, limit, existing, current, gitFailures, reflogBranches,
             fallbackBranches, results, seen, navErr, gitCalls>>

VARIABLES
    \* ---- app.Run and handleDelete (src/internal/app/app.go)
    appPc,        \* position inside Run
    optAction,    \* opts.Action
    optLimit,     \* opts.Limit
    depsNil,      \* the collaborators of deps that are nil
    appBranches,  \* branches, the Navigator's answer
    appCurrent,   \* current, the Git client's answer
    candidates,   \* the list handed to Terminal.Select
    selResult,    \* result, the Terminal's answer
    outStream,    \* what was written to deps.Output, one entry per write
    errStream,    \* what was written to deps.Error, one entry per write
    appLog,       \* every collaborator call made, in order
    exitCode,     \* the value Run returns (NoExit while running)
    panicked,     \* Run wrote to a nil writer
    delFirst,     \* handleDelete: result, err of the first DeleteBranch
    confirm,      \* confirmBranchDeletion: line read, confirmed, confirmErr
    delForced,     \* handleDelete: forcedResult, forceErr
    mergeRes,      \* what MergeBranch returned
    ioLog,         \* the lines written to both streams, in order
    appFailures    \* every err != nil a step handed to Run, in order

appVars == <<appPc, optAction, optLimit, depsNil, appBranches, appCurrent,
             candidates, selResult, outStream, errStream, appLog, exitCode,
             panicked, delFirst, confirm, delForced,
            mergeRes, ioLog, appFailures>>

VARIABLES
    \* ---- git.Client (src/internal/git/git.go:262-414)
    cliPc,         \* position inside the Client operation
    cliConfigured, \* the Client has a Runner
    head,          \* the branch checked out in the repository
    cliOp,         \* the operation called
    cliArg,        \* the branch argument as passed
    cliForce,      \* DeleteOptions.Force
    cliBranch,     \* the branch the operation works on
    cliCurrent,    \* current, the answer of c.CurrentBranch
    runnerCalls,   \* the argument list of every Runner invocation, in order
    runnerLast,    \* what the last Runner invocation answered
    cliRet         \* what the operation returns

cliVars == <<cliPc, cliConfigured, head, cliOp, cliArg, cliForce, cliBranch,
             cliCurrent, runnerCalls, runnerLast, cliRet>>

VARIABLES
    uiPc,          \* where UI.Select stands
    uiStreams,     \* u.in and u.out are set, or one of them is nil
    inKind,        \* what u.in is
    uiBranches,    \* the candidate list Select is called with
    index,         \* the cursor
    uiEnded,       \* the reader has answered io.EOF
    nread,         \* the number of bytes read
    uiOut,         \* what was written to u.out, in order
    uiFailAt,      \* the write to u.out that fails (0: none)
    termCalls,     \* the calls of term.MakeRaw and term.Restore, in order
    rawMode,       \* the mode of the terminal
    lastKey,       \* the bytes the last pass of the loop read
    moveLog,       \* for every movement key read: did it move the cursor
    uiRet          \* what Select returned

uiVars == <<uiPc, uiStreams, inKind, uiBranches, index, uiEnded, nread, uiOut,
            uiFailAt, termCalls, rawMode, lastKey, moveLog, uiRet>>

VARIABLES
    keysPc,        \* where the replay stands
    keysBranches,  \* the candidate list
    keysInput,     \* the bytes of the input stream
    keysEnd,       \* how the input stream ends
    keysFailAt,    \* the write that fails (0: none)
    keysRun,       \* Select over keysInput
    keysSwapped    \* Select over keysInput with its arrows swapped

keysVars == <<keysPc, keysBranches, keysInput, keysEnd, keysFailAt, keysRun,
              keysSwapped>>

VARIABLES
    parsePc,       \* where the parse of one reflog output stands
    parseOutput,   \* output, the text of `git reflog` as the client reads it
    parseBranches  \* what parseReflogSubjects returned

parseVars == <<parsePc, parseOutput, parseBranches>>

VARIABLES
    \* ---- the two navigators side by side (src/internal/git/git.go:513-580
    \* and src/unnamed/part_005)
    cmpPc,         \* where the comparison stands
    cmpLimit,      \* limit, as passed to both
    cmpCurrent,    \* the answer of CurrentBranch
    history,       \* the names the reflog yields, newest first
    locals,        \* the local branches by commit date
    cmpVerified,   \* what the navigator that asks BranchExists returned
    cmpFiltered    \* what the navigator that filters by localSet returned

cmpVars == <<cmpPc, cmpLimit, cmpCurrent, history, locals, cmpVerified,
             cmpFiltered>>

VARIABLES
    \* ---- main (src/cmd/branch-navigator/main.go:154-236): Select and
    \* the delete confirmation, both reading os.Stdin
    sesPc,         \* where main stands
    sesRows,       \* uiBranches
    sesInput,      \* the bytes os.Stdin held when main started
    stdin,         \* the bytes os.Stdin still holds
    sesResult,     \* result, err of terminal.Select
    sesFirst,      \* err of the first DeleteBranch
    sesConfirm,    \* confirmBranchDeletion: line read, confirmed, confirmErr
    sesDeletes,    \* DeleteOptions.Force of every DeleteBranch call, in order
    sesErr         \* what handleDeleteAction returned

sesVars == <<sesPc, sesRows, sesInput, stdin, sesResult, sesFirst, sesConfirm,
             sesDeletes, sesErr>>

vars == <<navVars, appVars, cliVars, uiVars, keysVars, parseVars, cmpVars,
          sesVars>>

\* what the actions of one component leave alone
navFrame == <<appVars, cliVars, uiVars, keysVars, parseVars,
    cmpVars, sesVars>>
appFrame == <<navVars, cliVars, uiVars, keysVars, parseVars,
    cmpVars, sesVars>>
cliFrame == <<navVars, appVars, uiVars, keysVars, parseVars,
    cmpVars, sesVars>>
uiFrame == <<navVars, appVars, cliVars, keysVars, parseVars,
    cmpVars, sesVars>>
keysFrame == <<navVars, appVars, cliVars, uiVars, parseVars,
    cmpVars, sesVars>>
parseFrame == <<navVars, appVars, cliVars, uiVars, keysVars, cmpVars,
    sesVars>>
cmpFrame == <<appVars, cliVars, uiVars, keysVars, parseVars, sesVars>>
sesFrame == <<navVars, appVars, cliVars, uiVars, keysVars, parseVars,
    cmpVars>>

-----------------------------------------------------------------------------
(* Bounds *)

\* longest reflog history the GitService answers with
MaxReflog == 2

\* longest commit-date list the GitService answers with
MaxFallback == 2

\* largest limit passed to RecentBranches
MaxLimit == 2

\* longest list the Navigator hands to Run
MaxBranches == 2

\* most bytes os.Stdin holds when main starts
MaxStream == 4

\* the longest candidate list Select is called with
MaxRows == 3

\* the most bytes Select reads from its input
MaxInput == 3

\* the writes to the output stream of which one may fail
MaxWrites == 2

\* the longest input Select is replayed over
MaxKeys == 4

\* the most tokens that follow the opening words of a reflog subject
MaxSubject == 4

\* the most lines of a reflog output
MaxLines == 3

-----------------------------------------------------------------------------
(* Strings *)

\* unicode.IsSpace on the characters the model uses
IsSpace(c) == c \in {" ", "\n", "\t", "\r"}

RECURSIVE TrimLeft(_)
TrimLeft(s) ==
    IF s = <<>> THEN <<>>
    ELSE IF IsSpace(Head(s)) THEN TrimLeft(Tail(s))
    ELSE s

RECURSIVE TrimRight(_)
TrimRight(s) ==
    IF s = <<>> THEN <<>>
    ELSE IF IsSpace(s[Len(s)]) THEN TrimRight(SubSeq(s, 1, Len(s) - 1))
    ELSE s

\* strings.TrimSpace
TrimSpace(s) == TrimRight(TrimLeft(s))

\* all sequences over S of length at most n
SeqsUpTo(S, n) == UNION {[1..k -> S] : k \in 0..n}

\* the set of the entries of a list
Range(list) == {list[i] : i \in 1..Len(list)}

-----------------------------------------------------------------------------
(* The repository as the Navigator's GitService sees it *)

\* local branch names
BranchNames == {<<"m">>, <<"a">>, <<"b">>}

\* what a GitService may hand back as one list entry: a name, a name with
\* surrounding white space, or a blank entry
RawNames == BranchNames \cup {<<" ", "a">>, <<" ">>}

\* what GitService.CurrentBranch may answer
CurrentNames == {<<"a">>}

Limits == (-1)..MaxLimit

NoErr == "nil"
ErrCurrentBranch == "current branch failed"
ErrReflog == "reflog failed"
ErrFallback == "fallback failed"
ErrBranchExists == "branch exists failed"

GitCall(op, arg) == [op |-> op, arg |-> arg]


-----------------------------------------------------------------------------
(* Navigator (src/internal/git/git.go:483-580) *)

\* GitService.BranchExists as the repository answers it
BranchExists(b) == b \in existing

\* a limit check that lets 0 through
LimitNegative(l) == l < 0

\* if limit <= 0 (line 517)
LimitNotPositive(l) == l <= 0

\* a navigator that forgets what it has seen
NeverSeen(c, s) == FALSE

\* if _, ok := seen[candidate]; ok (line 561)
AlreadySeen(c, s) == c \in s

\* a navigator that ignores the answer of BranchExists
SkipNone(exists) == FALSE

\* if !exists { continue } (line 569)
SkipMissing(exists) == ~exists

\* a navigator that puts the newest name first
AcceptInFront(cur, c) == <<c>> \o cur

\* current = append(current, candidate) (line 574)
Accept(cur, c) == Append(cur, c)

\* a limit test that never stops the walk
LimitNeverReached(cur, l) == FALSE

\* if len(current) >= limit (lines 538 and 575)
LimitReached(cur, l) == Len(cur) >= l

\* an appendBranches that goes on after a failed check
NeverStops(err) == FALSE

\* if err != nil { return nil, err } (lines 566-568)
StopsOn(err) == err # NoErr

\* The loop of appendBranches from candidate i on. failAt is the position of
\* the candidate at which BranchExists answers with an error (0: nowhere).
\* calls collects the BranchExists calls made, fails the errors they
\* answered with.
RECURSIVE AppendFrom(_, _, _, _, _, _, _, _)
AppendFrom(i, cur, cands, s, l, failAt, calls, fails) ==
    IF i > Len(cands)
    THEN [results |-> cur, seen |-> s, calls |-> calls, err |-> NoErr,
          failures |-> fails]
    ELSE LET candidate == TrimSpace(cands[i]) IN
         IF candidate = <<>>
         THEN AppendFrom(i + 1, cur, cands, s, l, failAt, calls, fails)
         ELSE IF AlreadySeen(candidate, s)
         THEN AppendFrom(i + 1, cur, cands, s, l, failAt, calls, fails)
         ELSE LET calls2 == Append(calls, GitCall("BranchExists", candidate))
                  err == IF failAt = i THEN ErrBranchExists ELSE NoErr
                  fails2 == IF err # NoErr THEN Append(fails, err) ELSE fails
                  exists == err = NoErr /\ BranchExists(candidate)
              IN
              IF StopsOn(err)
              THEN [results |-> <<>>, seen |-> s, calls |-> calls2,
                    err |-> err, failures |-> fails2]
              ELSE IF SkipMissing(exists)
              THEN AppendFrom(i + 1, cur, cands, s, l, failAt, calls2, fails2)
              ELSE LET s2 == s \cup {candidate}
                       cur2 == Accept(cur, candidate)
                   IN  IF LimitReached(cur2, l)
                       THEN [results |-> cur2, seen |-> s2, calls |-> calls2,
                             err |-> NoErr, failures |-> fails2]
                       ELSE AppendFrom(i + 1, cur2, cands, s2, l, failAt,
                                       calls2, fails2)

\* Navigator.appendBranches
AppendBranches(cur, cands, s, l, failAt) ==
    AppendFrom(1, cur, cands, s, l, failAt, <<>>, <<>>)

\* RecentBranches as a function of what the repository holds, when no git
\* call fails (lines 513-553)
RecentBranches(cur, l, reflog, fallback) ==
    IF LimitNotPositive(l)
    THEN <<>>
    ELSE LET r == AppendBranches(<<>>, reflog, {cur}, l, 0) IN
         IF LimitReached(r.results, l)
         THEN r.results
         ELSE AppendBranches(r.results, fallback, r.seen, l, 0).results

\* a return that drops the error
NavReturnNoError(list, err) ==
    /\ navPc' = "done"
    /\ results' = list
    /\ navErr' = NoErr

\* RecentBranches returning (list, err)
NavReturn(list, err) ==
    /\ navPc' = "done"
    /\ results' = list
    /\ navErr' = err

\* RecentBranches up to the CurrentBranch call (lines 513-527)
RecentBranchesBegin ==
    /\ navPc = "start"
    /\ IF LimitNotPositive(limit)
       THEN /\ NavReturn(<<>>, NoErr)
            /\ UNCHANGED <<current, seen, gitCalls, gitFailures>>
       ELSE /\ gitCalls' = Append(gitCalls, GitCall("CurrentBranch", <<>>))
            /\ \/ /\ NavReturn(<<>>, ErrCurrentBranch)
                  /\ gitFailures' = Append(gitFailures, ErrCurrentBranch)
                  /\ UNCHANGED <<current, seen>>
               \/ \E c \in CurrentNames :
                     /\ current' = c
                     /\ seen' = {c}
                     /\ results' = <<>>
                     /\ navPc' = "reflog"
                     /\ UNCHANGED <<navErr, gitFailures>>
    /\ UNCHANGED <<limit, existing, reflogBranches, fallbackBranches, navFrame>>

\* The ReflogBranchMoves call and the first appendBranches (lines 529-540)
RecentBranchesReflog ==
    /\ navPc = "reflog"
    /\ \/ /\ gitCalls' = Append(gitCalls, GitCall("ReflogBranchMoves", <<>>))
          /\ NavReturn(<<>>, ErrReflog)
          /\ gitFailures' = Append(gitFailures, ErrReflog)
          /\ UNCHANGED <<reflogBranches, seen>>
       \/ \E list \in SeqsUpTo(RawNames, MaxReflog), failAt \in 0..MaxReflog :
             LET r == AppendBranches(results, list, seen, limit, failAt) IN
             /\ failAt <= Len(list)
             /\ reflogBranches' = list
             /\ gitCalls' = Append(gitCalls, GitCall("ReflogBranchMoves", <<>>))
                                \o r.calls
             /\ gitFailures' = gitFailures \o r.failures
             /\ IF r.err # NoErr
                THEN /\ NavReturn(<<>>, r.err)
                     /\ UNCHANGED seen
                ELSE /\ seen' = r.seen
                     /\ results' = r.results
                     /\ UNCHANGED navErr
                     /\ navPc' = IF LimitReached(r.results, limit)
                                 THEN "done" ELSE "fallback"
    /\ UNCHANGED <<limit, existing, current, fallbackBranches, navFrame>>

\* The BranchesByCommitDate call and the second appendBranches (lines 542-552)
RecentBranchesFallback ==
    /\ navPc = "fallback"
    /\ \/ /\ gitCalls' = Append(gitCalls, GitCall("BranchesByCommitDate", <<>>))
          /\ NavReturn(<<>>, ErrFallback)
          /\ gitFailures' = Append(gitFailures, ErrFallback)
          /\ UNCHANGED <<fallbackBranches, seen>>
       \/ \E list \in SeqsUpTo(RawNames, MaxFallback), failAt \in 0..MaxFallback :
             LET r == AppendBranches(results, list, seen, limit, failAt) IN
             /\ failAt <= Len(list)
             /\ fallbackBranches' = list
             /\ gitCalls' = Append(gitCalls, GitCall("BranchesByCommitDate", <<>>))
                                \o r.calls
             /\ gitFailures' = gitFailures \o r.failures
             /\ IF r.err # NoErr
                THEN /\ NavReturn(<<>>, r.err)
                     /\ UNCHANGED seen
                ELSE /\ seen' = r.seen
                     /\ NavReturn(r.results, NoErr)
    /\ UNCHANGED <<limit, existing, current, reflogBranches, navFrame>>

NavStart ==
    /\ navPc = "start"
    /\ limit \in Limits
    /\ existing \in SUBSET BranchNames
    /\ current = <<>>
    /\ reflogBranches = <<>>
    /\ fallbackBranches = <<>>
    /\ results = <<>>
    /\ seen = {}
    /\ navErr = NoErr
    /\ gitCalls = <<>>
    /\ gitFailures = <<>>

\* the Navigator before any call
NavQuiet ==
    /\ navPc = "idle"
    /\ limit = 0
    /\ current = <<>>
    /\ reflogBranches = <<>>
    /\ fallbackBranches = <<>>
    /\ results = <<>>
    /\ seen = {}
    /\ navErr = NoErr
    /\ gitCalls = <<>>
    /\ gitFailures = <<>>

\* the Navigator while another component runs, in a repository that holds
\* every name
NavIdle == NavQuiet /\ existing = BranchNames

-----------------------------------------------------------------------------
(* Action Orchestrator (src/internal/app/app.go) *)

\* errors: a kind, which errors.Is tests, and the text of Error()
Err(kind, msg) == [kind |-> kind, msg |-> msg]
NilErr == Err("nil", <<>>)
\* git.ErrBranchNotFullyMerged, possibly wrapped
ErrBranchNotFullyMerged == Err("BranchNotFullyMerged", <<"branch is not fully merged">>)
\* git.ErrDeleteCurrentBranch
ErrDeleteCurrentBranch == Err("DeleteCurrentBranch", <<"cannot delete the current branch">>)
\* any other failure of a git invocation
ErrGit == Err("git", <<"git failed">>)
ErrNavigator == Err("navigator", <<"navigator failed">>)
ErrTerminal == Err("terminal", <<"ui failed">>)
\* a failure of the input reader that is not io.EOF
ErrRead == Err("read", <<"read failed">>)
\* a failure of the output writer
ErrWrite == Err("write", <<"write failed">>)
\* io.EOF
EOF == Err("EOF", <<"EOF">>)
\* fmt.Errorf("branch deletion aborted") (line 164)
ErrAborted == Err("aborted", <<"branch deletion aborted">>)

Actions == {"checkout", "merge", "delete"}
Deps == {"Git", "Navigator", "Terminal", "Input", "Output", "Error"}
AppLimits == {-1, 0, 2}
NoExit == -1

\* the results a git invocation can capture
Stdouts == {<<>>, <<"o">>}
Stderrs == {<<>>, <<"w">>, <<" ">>}

\* git.DeleteResult and git.MergeResult with the error returned beside them
NoAnswer == [Stdout |-> <<>>, Stderr |-> <<>>, err |-> Err("unset", <<>>)]
DeleteAnswers == [Stdout : Stdouts, Stderr : Stderrs,
                  err : {NilErr, ErrBranchNotFullyMerged,
                         ErrDeleteCurrentBranch, ErrGit}]
\* the stderr of a merge: empty, blank, a warning, and a text that holds the
\* failure's own message
MergeStderrs == Stderrs \cup { <<"fatal: ", "git failed", "!">> }
MergeAnswers == [Stdout : Stdouts, Stderr : MergeStderrs, err : {NilErr, ErrGit}]
CheckoutAnswers == [message : Stdouts, err : {NilErr, ErrGit}]

\* what the user may type at the confirmation prompt
ConfirmInputs ==
    { <<>>, <<"\n">>, <<"y">>, <<"y", "\n">>, <<"n", "\n">>, <<"Y", "\n">>,
      <<"y", "e", "s", "\n">>, <<"Y", "E", "S">>, <<" ", "y", " ", "\n">>,
      <<"y", "e", "\n">>, <<"y", " ", "e", "s", "\n">>,
      <<"n", "\n", "y", "\n">> }

NoConfirm == [line |-> <<>>, confirmed |-> FALSE, err |-> Err("unset", <<>>)]

\* ui.Result
Result(branch, quit, alreadyOn) ==
    [Branch |-> branch, Quit |-> quit, AlreadyOn |-> alreadyOn]
NoResult == Result(<<>>, FALSE, FALSE)

\* ui.Branch
Branch(name, cur) == [Name |-> name, Current |-> cur]

\* a Terminal that takes no row for the current branch
SelectAnyRow(rows) ==
    {Result(<<>>, TRUE, FALSE)} \cup
    { Result(rows[i].Name, FALSE, FALSE) : i \in 1..Len(rows) }

\* the Results UI.Select returns without error: quit, or the row under the
\* cursor when the confirm key is read
SelectResults(rows) ==
    {Result(<<>>, TRUE, FALSE)} \cup
    { IF rows[i].Current THEN Result(rows[i].Name, FALSE, TRUE)
                         ELSE Result(rows[i].Name, FALSE, FALSE) :
      i \in 1..Len(rows) }

\* an err != nil Run or handleDelete got from one of its steps
Failure(step, err) == [step |-> step, err |-> err]

AppCall(op, branch, force) == [op |-> op, branch |-> branch, Force |-> force]

\* strings.ToLower
LowerChar(c) ==
    CASE c = "Y" -> "y"
      [] c = "E" -> "e"
      [] c = "S" -> "s"
      [] c = "N" -> "n"
      [] OTHER -> c
ToLower(s) == [i \in 1..Len(s) |-> LowerChar(s[i])]

\* fmt.Fprintln(w, message)
Println(stream, message) == Append(stream, message \o <<"\n">>)

\* printIfNotEmpty (lines 200-204)
PrintIfNotEmpty(stream, message) ==
    IF TrimSpace(message) # <<>> THEN Println(stream, TrimSpace(message))
    ELSE stream

\* the prompt of confirmBranchDeletion (line 181)
Prompt(branch) ==
    <<"Branch '">> \o branch \o <<"' is not fully merged. Delete anyway? [y/N]: ">>

\* bufio.Reader.ReadString('\n') on the input: the line with its delimiter,
\* or what is left and io.EOF
ReadString(input) ==
    IF \E i \in 1..Len(input) : input[i] = "\n"
    THEN LET n == CHOOSE i \in 1..Len(input) :
                     /\ input[i] = "\n"
                     /\ \A j \in 1..(i - 1) : input[j] # "\n"
         IN  [line |-> SubSeq(input, 1, n), err |-> NilErr]
    ELSE [line |-> input, err |-> EOF]

\* a confirmation that takes anything but "n" for a yes
IsNotNo(answer) == answer # <<"n">>

\* answer == "y" || answer == "yes" (line 197)
IsYes(answer) == answer = <<"y">> \/ answer = <<"y", "e", "s">>

\* a test that takes the end of the input for a failure
IsAnyReadError(err) == err # NilErr

\* err != nil && !errors.Is(err, io.EOF) (line 187)
IsReadFailure(err) == err # NilErr /\ err # EOF

\* confirmBranchDeletion after the read (lines 187-197): the read's line and
\* error to (confirmed, err)
Confirmation(read) ==
    IF IsReadFailure(read.err)
    THEN [line |-> read.line, confirmed |-> FALSE, err |-> read.err]
    ELSE LET line == TrimSpace(read.line) IN
         IF line = <<>>
         THEN [line |-> read.line, confirmed |-> FALSE, err |-> NilErr]
         ELSE [line |-> read.line, confirmed |-> IsYes(ToLower(line)),
               err |-> NilErr]

\* a handleDelete that offers the forced delete after any failure
IsAnyFailure(err) == err # NilErr

\* errors.Is(err, git.ErrBranchNotFullyMerged) (line 157)
IsNotFullyMerged(err) == err.kind = "BranchNotFullyMerged"

\* a retry that leaves Force unset
UnforcedRetry == FALSE

\* git.DeleteOptions{Force: true} (line 166)
ForcedDelete == TRUE

\* Run returning code
\* log with the lines that took the stream named to from old to new
Logged(log, to, old, new) ==
    log \o [i \in 1..(Len(new) - Len(old)) |-> [to |-> to, line |-> new[Len(old) + i]]]

\* a step that writes to the error stream before the output stream
ErrThenOut(log, out, out2, err, err2) ==
    Logged(Logged(log, "err", err, err2), "out", out, out2)

\* a step of Run that writes to the output stream and then to the error
\* stream
OutThenErr(log, out, out2, err, err2) ==
    Logged(Logged(log, "out", out, out2), "err", err, err2)

AppReturn(code) ==
    /\ appPc' = "done"
    /\ exitCode' = code

\* a return of code that prints nothing
AppFailSilently(stream, err, code) ==
    /\ errStream' = stream
    /\ AppReturn(code)

\* Run printing err to deps.Error and returning code
AppFail(stream, err, code) ==
    /\ errStream' = Println(stream, err.msg)
    /\ AppReturn(code)

\* validateDeps (lines 130-147)
ValidateDeps(nil) ==
    CASE "Git" \in nil -> Err("config", <<"git client is not configured">>)
      [] "Navigator" \in nil -> Err("config", <<"navigator is not configured">>)
      [] "Terminal" \in nil -> Err("config", <<"terminal UI is not configured">>)
      [] "Input" \in nil -> Err("config", <<"input reader is not configured">>)
      [] "Output" \in nil -> Err("config", <<"output writer is not configured">>)
      [] "Error" \in nil -> Err("config", <<"error writer is not configured">>)
      [] OTHER -> NilErr

\* Run's checks of its arguments (lines 53-60). fmt.Fprintln on a nil
\* io.Writer panics; the run-time then ends the process with status 2.
RunValidate ==
    /\ appPc = "start"
    /\ IF optLimit <= 0
       THEN IF "Error" \in depsNil
            THEN /\ panicked' = TRUE
                 /\ AppReturn(2)
                 /\ UNCHANGED errStream
            ELSE /\ AppFail(errStream, Err("limit", <<"limit must be greater than 0">>), 2)
                 /\ UNCHANGED panicked
       ELSE IF ValidateDeps(depsNil) # NilErr
            THEN IF "Error" \in depsNil
                 THEN /\ panicked' = TRUE
                      /\ AppReturn(2)
                      /\ UNCHANGED errStream
                 ELSE /\ AppFail(errStream, ValidateDeps(depsNil), 1)
                      /\ UNCHANGED panicked
            ELSE /\ appPc' = "navigate"
                 /\ UNCHANGED <<errStream, exitCode, panicked>>
    /\ UNCHANGED <<optAction, optLimit, depsNil, appBranches, appCurrent,
                   candidates, selResult, outStream, appLog, delFirst,
                   confirm, delForced,
                   mergeRes, appFailures, appFrame>>
    /\ ioLog' = OutThenErr(ioLog, outStream, outStream', errStream, errStream')

\* deps.Navigator.RecentBranches (lines 62-66)
RunNavigate ==
    /\ appPc = "navigate"
    /\ appLog' = Append(appLog, AppCall("RecentBranches", <<>>, FALSE))
    /\ \/ /\ AppFail(errStream, ErrNavigator, 1)
          /\ appFailures' = Append(appFailures, Failure("navigator", ErrNavigator))
          /\ UNCHANGED appBranches
       \/ \E reflog \in SeqsUpTo(RawNames, MaxBranches),
             fallback \in SeqsUpTo(RawNames, MaxBranches) :
             /\ appBranches' = RecentBranches(head, optLimit, reflog, fallback)
             /\ appPc' = "current"
             /\ UNCHANGED <<errStream, exitCode, appFailures>>
    /\ UNCHANGED <<optAction, optLimit, depsNil, appCurrent, candidates,
                   selResult, outStream, panicked, delFirst, confirm,
                   delForced,
                   mergeRes, appFrame>>
    /\ ioLog' = OutThenErr(ioLog, outStream, outStream', errStream, errStream')

\* a candidate list with every row marked current
CandidatesAllCurrent(cur, list) ==
    <<Branch(cur, TRUE)>> \o [i \in 1..Len(list) |-> Branch(list[i], TRUE)]

\* the candidate list: the current branch, then the navigator's (lines 74-78)
Candidates(cur, list) ==
    <<Branch(cur, TRUE)>> \o [i \in 1..Len(list) |-> Branch(list[i], FALSE)]

\* deps.Git.CurrentBranch and the candidate list (lines 68-78)
RunCurrentBranch ==
    /\ appPc = "current"
    /\ appLog' = Append(appLog, AppCall("CurrentBranch", <<>>, FALSE))
    /\ \/ /\ AppFail(errStream, ErrGit, 1)
          /\ appFailures' = Append(appFailures, Failure("current", ErrGit))
          /\ UNCHANGED <<appCurrent, candidates>>
       \/ /\ appCurrent' = head
          /\ candidates' = Candidates(head, appBranches)
          /\ appPc' = "select"
          /\ UNCHANGED <<errStream, exitCode, appFailures>>
    /\ UNCHANGED <<optAction, optLimit, depsNil, appBranches, selResult,
                   outStream, panicked, delFirst, confirm, delForced,
                   mergeRes, appFrame>>
    /\ ioLog' = OutThenErr(ioLog, outStream, outStream', errStream, errStream')

\* an early return on quit alone
QuitOnly(r) == r.Quit

\* an early return on the current row alone
AlreadyOnOnly(r) == r.AlreadyOn

\* if result.Quit || result.AlreadyOn (line 86)
NothingToDo(r) == r.Quit \/ r.AlreadyOn

\* deps.Terminal.Select and the early return (lines 80-88)
RunSelect ==
    /\ appPc = "select"
    /\ appLog' = Append(appLog, AppCall("Select", <<>>, FALSE))
    /\ \/ /\ AppFail(errStream, ErrTerminal, 1)
          /\ appFailures' = Append(appFailures, Failure("terminal", ErrTerminal))
          /\ UNCHANGED selResult
       \/ \E r \in SelectResults(candidates) :
             /\ selResult' = r
             /\ IF NothingToDo(r)
                THEN AppReturn(0)
                ELSE appPc' = "action" /\ UNCHANGED exitCode
             /\ UNCHANGED <<errStream, appFailures>>
    /\ UNCHANGED <<optAction, optLimit, depsNil, appBranches, appCurrent,
                   candidates, outStream, panicked, delFirst, confirm,
                   delForced,
                   mergeRes, appFrame>>
    /\ ioLog' = OutThenErr(ioLog, outStream, outStream', errStream, errStream')

\* case ActionCheckout (lines 91-98)
RunCheckout ==
    /\ appPc = "action"
    /\ optAction = "checkout"
    /\ appLog' = Append(appLog, AppCall("CheckoutBranch", selResult.Branch, FALSE))
    /\ \E a \in CheckoutAnswers :
          IF a.err # NilErr
          THEN /\ AppFail(errStream, a.err, 1)
               /\ appFailures' = Append(appFailures, Failure("checkout", a.err))
               /\ UNCHANGED outStream
          ELSE /\ outStream' = PrintIfNotEmpty(outStream, a.message)
               /\ AppReturn(0)
               /\ UNCHANGED <<errStream, appFailures>>
    /\ UNCHANGED <<optAction, optLimit, depsNil, appBranches, appCurrent,
                   candidates, selResult, panicked, delFirst, confirm,
                   delForced,
                   mergeRes, appFrame>>
    /\ ioLog' = OutThenErr(ioLog, outStream, outStream', errStream, errStream')

\* strings.Contains: sub occurs in s
Contains(s, sub) ==
    \E i \in 0..(Len(s) - Len(sub)) : SubSeq(s, i + 1, i + Len(sub)) = sub

\* a test for the message inside the stderr
MessageInStderr(message, stderrOutput) == Contains(stderrOutput, message)

\* strings.Contains(err.Error(), stderrOutput) (line 105)
AlreadyReported(message, stderrOutput) == Contains(message, stderrOutput)

\* what git's runner puts into a merge failure's Error() text: the text of
\* the failure alone, or followed by the trimmed stderr
MergeErrors(stderr) ==
    {ErrGit} \cup
    (IF TrimSpace(stderr) = <<>> THEN {}
     ELSE {Err("git", ErrGit.msg \o <<": ">> \o TrimSpace(stderr))})

\* case ActionMerge (lines 99-117)
RunMerge ==
    /\ appPc = "action"
    /\ optAction = "merge"
    /\ appLog' = Append(appLog, AppCall("MergeBranch", selResult.Branch, FALSE))
    /\ \E out \in Stdouts, stderr \in MergeStderrs :
       \E err \in {NilErr} \cup MergeErrors(stderr) :
          LET stderrOutput == TrimSpace(stderr) IN
          /\ mergeRes' = [Stdout |-> out, Stderr |-> stderr, err |-> err]
          /\ appFailures' = IF err # NilErr
                            THEN Append(appFailures, Failure("merge", err))
                            ELSE appFailures
          /\ outStream' = PrintIfNotEmpty(outStream, out)
          /\ IF err # NilErr
             THEN /\ errStream' =
                        IF stderrOutput # <<>>
                        THEN IF ~AlreadyReported(err.msg, stderrOutput)
                             THEN Println(Println(errStream, stderrOutput), err.msg)
                             ELSE Println(errStream, stderrOutput)
                        ELSE Println(errStream, err.msg)
                  /\ AppReturn(1)
             ELSE /\ errStream' =
                        IF stderrOutput # <<>>
                        THEN Println(errStream, stderrOutput)
                        ELSE errStream
                  /\ AppReturn(0)
    /\ UNCHANGED <<optAction, optLimit, depsNil, appBranches, appCurrent,
                   candidates, selResult, panicked, delFirst, confirm,
                   delForced,
                   appFrame>>
    /\ ioLog' = OutThenErr(ioLog, outStream, outStream', errStream, errStream')

\* case ActionDelete: handleDelete up to the confirmation prompt
\* (lines 118-123, 149-159, 176-177, 181-183)
HandleDeleteFirst ==
    /\ appPc = "action"
    /\ optAction = "delete"
    /\ appLog' = Append(appLog, AppCall("DeleteBranch", selResult.Branch, FALSE))
    /\ \E a \in DeleteAnswers :
          /\ delFirst' = a
          /\ IF a.err = NilErr
             THEN /\ outStream' = PrintIfNotEmpty(outStream, a.Stdout)
                  /\ errStream' = PrintIfNotEmpty(errStream, a.Stderr)
                  /\ AppReturn(0)
                  /\ UNCHANGED <<confirm, appFailures>>
             ELSE IF IsNotFullyMerged(a.err)
             THEN \/ /\ outStream' = Append(outStream, Prompt(selResult.Branch))
                     /\ errStream' = PrintIfNotEmpty(errStream, a.Stderr)
                     /\ appPc' = "confirm"
                     /\ UNCHANGED <<exitCode, confirm, appFailures>>
                  \/ \* the write of the prompt fails
                     /\ confirm' = [line |-> <<>>, confirmed |-> FALSE,
                                    err |-> ErrWrite]
                     /\ AppFail(PrintIfNotEmpty(errStream, a.Stderr), ErrWrite, 1)
                     /\ appFailures' = Append(appFailures, Failure("prompt", ErrWrite))
                     /\ UNCHANGED outStream
             ELSE /\ AppFail(PrintIfNotEmpty(errStream, a.Stderr), a.err, 1)
                  /\ appFailures' = Append(appFailures, Failure("delete", a.err))
                  /\ UNCHANGED <<outStream, confirm>>
    /\ UNCHANGED <<optAction, optLimit, depsNil, appBranches, appCurrent,
                   candidates, selResult, panicked, delForced,
                   mergeRes, appFrame>>
    /\ ioLog' = IF appPc' = "confirm"
                THEN Logged(Logged(ioLog, "err", errStream, errStream'),
                            "out", outStream, outStream')
                ELSE OutThenErr(ioLog, outStream, outStream', errStream, errStream')

\* confirmBranchDeletion's read and handleDelete's test of it
\* (lines 185-197, 160-165)
HandleDeleteConfirm ==
    /\ appPc = "confirm"
    /\ \E input \in ConfirmInputs :
       \E read \in {ReadString(input), [line |-> <<>>, err |-> ErrRead]} :
          LET c == Confirmation(read) IN
          /\ confirm' = c
          /\ IF c.err # NilErr
             THEN /\ AppFail(errStream, c.err, 1)
                  /\ appFailures' = Append(appFailures, Failure("read", c.err))
             ELSE IF ~c.confirmed
             THEN /\ AppFail(errStream, ErrAborted, 1)
                  /\ appFailures' = Append(appFailures, Failure("declined", ErrAborted))
             ELSE /\ appPc' = "force"
                  /\ UNCHANGED <<errStream, exitCode, appFailures>>
    /\ UNCHANGED <<optAction, optLimit, depsNil, appBranches, appCurrent,
                   candidates, selResult, outStream, appLog, panicked,
                   delFirst, delForced,
                   mergeRes, appFrame>>
    /\ ioLog' = OutThenErr(ioLog, outStream, outStream', errStream, errStream')

\* handleDelete's retry with force (lines 166-173)
HandleDeleteForce ==
    /\ appPc = "force"
    /\ appLog' = Append(appLog, AppCall("DeleteBranch", selResult.Branch, ForcedDelete))
    /\ \E a \in DeleteAnswers :
          /\ delForced' = a
          /\ IF a.err # NilErr
             THEN /\ AppFail(PrintIfNotEmpty(errStream, a.Stderr), a.err, 1)
                  /\ appFailures' = Append(appFailures, Failure("delete", a.err))
                  /\ UNCHANGED outStream
             ELSE /\ outStream' = PrintIfNotEmpty(outStream, a.Stdout)
                  /\ errStream' = PrintIfNotEmpty(errStream, a.Stderr)
                  /\ AppReturn(0)
                  /\ UNCHANGED appFailures
    /\ UNCHANGED <<optAction, optLimit, depsNil, appBranches, appCurrent,
                   candidates, selResult, panicked, delFirst, confirm,
                   mergeRes, appFrame>>
    /\ ioLog' = OutThenErr(ioLog, outStream, outStream', errStream, errStream')

\* Run's local state before its first step
AppFresh ==
    /\ appBranches = <<>>
    /\ appCurrent = <<>>
    /\ candidates = <<>>
    /\ selResult = NoResult
    /\ outStream = <<>>
    /\ errStream = <<>>
    /\ appLog = <<>>
    /\ exitCode = NoExit
    /\ panicked = FALSE
    /\ delFirst = NoAnswer
    /\ confirm = NoConfirm
    /\ delForced = NoAnswer
    /\ mergeRes = NoAnswer
    /\ ioLog = <<>>
    /\ appFailures = <<>>

\* the orchestrator while another component runs
AppIdle ==
    /\ appPc = "idle"
    /\ optAction = "checkout"
    /\ optLimit = 0
    /\ depsNil = {}
    /\ AppFresh

AppStart ==
    /\ appPc = "start"
    /\ optAction \in Actions
    /\ optLimit \in AppLimits
    /\ depsNil \in {n \in SUBSET Deps : Cardinality(n) <= 2}
    /\ AppFresh

-----------------------------------------------------------------------------
(* Repository Client (src/internal/git/git.go:262-414) *)

\* the branch arguments a caller may pass
ClientArgs == RawNames

\* what "git rev-parse --abbrev-ref HEAD" may print
HeadNames == BranchNames \cup {<<>>}

\* the argument lists of the Runner invocations
ArgsRevParse == << <<"rev-parse">>, <<"--abbrev-ref">>, <<"HEAD">> >>
ArgsCheckout(branch) == << <<"checkout">>, branch >>
ArgsBranchDelete(branch, force) ==
    << <<"branch">>, IF force THEN <<"-D">> ELSE <<"-d">>, branch >>

\* fmt.Sprintf("already on '%s'", branch) (line 383)
AlreadyOnMessage(branch) == <<"already on '">> \o branch \o <<"'">>

\* errors.New("git client is not configured") (line 371)
ErrNotConfigured == Err("config", <<"git client is not configured">>)
\* errors.New("branch name is required") (line 375)
ErrBranchRequired == Err("validation", <<"branch name is required">>)

\* the phrase of git's stderr that marks an unmerged branch
NotMergedPhrase == <<"not", " ", "fully", " ", "merged">>

\* what "git branch -d" may write to stderr
DeleteStderrs ==
    { <<>>,
      NotMergedPhrase,
      <<"error:", " ", "The", " ", "branch", " ", "is", " ">> \o NotMergedPhrase \o <<".">>,
      <<"error:", " ", "not", " ", "merged">>,
      <<"fully", " ", "merged", " ", "not">>,
      <<"error:", " ", "branch", " ", "not", " ", "found">> }

\* a Client operation returning
ClientReturn(out, stderr, err) ==
    /\ cliPc' = "returned"
    /\ cliRet' = [out |-> out, stderr |-> stderr, err |-> err]

NoReturn == [out |-> <<>>, stderr |-> <<>>, err |-> Err("unset", <<>>)]

\* a Runner invocation answering
RunnerAnswer(out, stderr, err) == [out |-> out, stderr |-> stderr, err |-> err]

\* a comparison that never finds the current branch
NeverSameBranch(branch, cur) == FALSE

\* branch == current (line 382)
SameBranch(branch, cur) == branch = cur

\* CheckoutBranch up to the current-branch lookup (lines 369-377)
CheckoutBranchBegin ==
    /\ cliPc = "idle"
    /\ cliOp' = "CheckoutBranch"
    /\ \E arg \in ClientArgs :
          /\ cliArg' = arg
          /\ IF ~cliConfigured
             THEN /\ ClientReturn(<<>>, <<>>, ErrNotConfigured)
                  /\ UNCHANGED cliBranch
             ELSE IF TrimSpace(arg) = <<>>
             THEN /\ ClientReturn(<<>>, <<>>, ErrBranchRequired)
                  /\ UNCHANGED cliBranch
             ELSE /\ cliBranch' = TrimSpace(arg)
                  /\ cliPc' = "checkout.current"
                  /\ UNCHANGED cliRet
    /\ UNCHANGED <<cliConfigured, head, cliForce, cliCurrent, runnerCalls,
                   runnerLast, cliFrame>>

\* c.CurrentBranch and the comparison with it (lines 378-384, 313-323)
CheckoutBranchCurrent ==
    /\ cliPc = "checkout.current"
    /\ runnerCalls' = Append(runnerCalls, ArgsRevParse)
    /\ \/ /\ runnerLast' = RunnerAnswer(<<>>, <<>>, ErrGit)
          /\ ClientReturn(<<>>, <<>>, ErrGit)
          /\ UNCHANGED cliCurrent
       \/ /\ runnerLast' = RunnerAnswer(head, <<>>, NilErr)
          /\ cliCurrent' = head
          /\ IF SameBranch(cliBranch, head)
             THEN ClientReturn(AlreadyOnMessage(cliBranch), <<>>, NilErr)
             ELSE cliPc' = "checkout.run" /\ UNCHANGED cliRet
    /\ UNCHANGED <<cliConfigured, head, cliOp, cliArg, cliForce, cliBranch,
                   cliFrame>>

\* c.runner.Run(ctx, "checkout", branch) (lines 386-390)
CheckoutBranchRun ==
    /\ cliPc = "checkout.run"
    /\ runnerCalls' = Append(runnerCalls, ArgsCheckout(cliBranch))
    /\ \E out \in Stdouts, err \in {NilErr, ErrGit} :
          /\ runnerLast' = RunnerAnswer(out, <<>>, err)
          /\ IF err # NilErr
             THEN ClientReturn(<<>>, <<>>, err)
             ELSE ClientReturn(out, <<>>, NilErr)
    /\ UNCHANGED <<cliConfigured, head, cliOp, cliArg, cliForce, cliBranch,
                   cliCurrent, cliFrame>>

\* DeleteBranch: the call
DeleteBranchBegin ==
    /\ cliPc = "idle"
    /\ cliConfigured
    /\ cliOp' = "DeleteBranch"
    /\ \E arg \in BranchNames, force \in BOOLEAN :
          /\ cliArg' = arg
          /\ cliBranch' = arg
          /\ cliForce' = force
    /\ cliPc' = "delete.current"
    /\ UNCHANGED <<cliConfigured, head, cliCurrent, runnerCalls, runnerLast,
                   cliRet, cliFrame>>

\* a refusal that a forced delete escapes
RefusesUnforcedOnly(force) == ~force

\* the current branch is refused whether or not the delete is forced
RefusesCurrent(force) == TRUE

\* DeleteBranch: the current-branch lookup and the refusal to delete the
\* branch that is checked out
DeleteBranchCurrent ==
    /\ cliPc = "delete.current"
    /\ runnerCalls' = Append(runnerCalls, ArgsRevParse)
    /\ \/ /\ runnerLast' = RunnerAnswer(<<>>, <<>>, ErrGit)
          /\ ClientReturn(<<>>, <<>>, ErrGit)
          /\ UNCHANGED cliCurrent
       \/ /\ runnerLast' = RunnerAnswer(head, <<>>, NilErr)
          /\ cliCurrent' = head
          /\ IF SameBranch(cliBranch, head) /\ RefusesCurrent(cliForce)
             THEN ClientReturn(<<>>, <<>>, ErrDeleteCurrentBranch)
             ELSE cliPc' = "delete.run" /\ UNCHANGED cliRet
    /\ UNCHANGED <<cliConfigured, head, cliOp, cliArg, cliForce, cliBranch,
                   cliFrame>>

\* a classification that takes every failed delete for an unmerged branch
DeleteErrorAlwaysUnmerged(force, stderr, err) == ErrBranchNotFullyMerged

\* the class of a failed delete: "not fully merged" is looked for in the
\* stderr of a delete that was not forced
DeleteError(force, stderr, err) ==
    IF ~force /\ Contains(stderr, NotMergedPhrase)
    THEN ErrBranchNotFullyMerged
    ELSE err

\* DeleteBranch: "git branch -d" or "git branch -D" and its outcome
DeleteBranchRun ==
    /\ cliPc = "delete.run"
    /\ runnerCalls' = Append(runnerCalls, ArgsBranchDelete(cliBranch, cliForce))
    /\ \E out \in Stdouts, stderr \in DeleteStderrs, err \in {NilErr, ErrGit} :
          /\ runnerLast' = RunnerAnswer(out, stderr, err)
          /\ IF err # NilErr
             THEN ClientReturn(out, stderr, DeleteError(cliForce, stderr, err))
             ELSE ClientReturn(out, stderr, NilErr)
    /\ UNCHANGED <<cliConfigured, head, cliOp, cliArg, cliForce, cliBranch,
                   cliCurrent, cliFrame>>

\* Client.CurrentBranch (lines 313-323): what the Runner printed for HEAD is
\* returned as it is
CurrentBranchCall ==
    /\ cliPc = "idle"
    /\ cliOp' = "CurrentBranch"
    /\ IF ~cliConfigured
       THEN /\ ClientReturn(<<>>, <<>>, ErrNotConfigured)
            /\ UNCHANGED <<runnerCalls, runnerLast, cliCurrent>>
       ELSE /\ runnerCalls' = Append(runnerCalls, ArgsRevParse)
            /\ \/ /\ runnerLast' = RunnerAnswer(<<>>, <<>>, ErrGit)
                  /\ ClientReturn(<<>>, <<>>, ErrGit)
                  /\ UNCHANGED cliCurrent
               \/ /\ runnerLast' = RunnerAnswer(head, <<>>, NilErr)
                  /\ cliCurrent' = head
                  /\ ClientReturn(head, <<>>, NilErr)
    /\ UNCHANGED <<cliConfigured, head, cliArg, cliForce, cliBranch, cliFrame>>

\* "git show-ref --verify --quiet refs/heads/<branch>" (line 357)
ArgsShowRef(branch) ==
    << <<"show-ref">>, <<"--verify">>, <<"--quiet">>, <<"refs/heads/">> \o branch >>

\* an *exec.ExitError with the given exit status
ErrExit(status) == Err("exit", <<"exit status ", status>>)

\* how a "git show-ref" invocation may fail: exit status 1 (no such ref),
\* another exit status, or an error that is no exit status
ShowRefErrors == {ErrExit("1"), ErrExit("128"), ErrGit}

\* a test that takes every exit status for "no such branch"
IsAnyExitError(err) == err.kind = "exit"

\* errors.As(err, &exitErr) && exitErr.ExitCode() == 1 (lines 359-360)
IsExitStatus1(err) == err.kind = "exit" /\ err.msg = <<"exit status ", "1">>

\* the bool BranchExists returns, as the out field of the return
Bool(b) == IF b THEN <<"true">> ELSE <<"false">>

\* Client.BranchExists (lines 349-366)
BranchExistsCall ==
    /\ cliPc = "idle"
    /\ cliOp' = "BranchExists"
    /\ \E arg \in ClientArgs \cup {<<>>} :
          /\ cliArg' = arg
          /\ IF ~cliConfigured
             THEN /\ ClientReturn(Bool(FALSE), <<>>, ErrNotConfigured)
                  /\ UNCHANGED <<runnerCalls, runnerLast>>
             ELSE IF TrimSpace(arg) = <<>>
             THEN /\ ClientReturn(Bool(FALSE), <<>>, NilErr)
                  /\ UNCHANGED <<runnerCalls, runnerLast>>
             ELSE /\ runnerCalls' = Append(runnerCalls, ArgsShowRef(arg))
                  /\ \E err \in {NilErr} \cup ShowRefErrors :
                        /\ runnerLast' = RunnerAnswer(<<>>, <<>>, err)
                        /\ IF err # NilErr
                           THEN IF IsExitStatus1(err)
                                THEN ClientReturn(Bool(FALSE), <<>>, NilErr)
                                ELSE ClientReturn(Bool(FALSE), <<>>, err)
                           ELSE ClientReturn(Bool(TRUE), <<>>, NilErr)
    /\ UNCHANGED <<cliConfigured, head, cliForce, cliBranch, cliCurrent,
                   cliFrame>>

\* a Client operation's local state before its first step
CliFresh ==
    /\ cliOp = "none"
    /\ cliArg = <<>>
    /\ cliForce = FALSE
    /\ cliBranch = <<>>
    /\ cliCurrent = <<>>
    /\ runnerCalls = <<>>
    /\ runnerLast = RunnerAnswer(<<>>, <<>>, Err("unset", <<>>))
    /\ cliRet = NoReturn

\* the Client while another component runs
CliIdle ==
    /\ cliPc = "unused"
    /\ cliConfigured = TRUE
    /\ head \in CurrentNames
    /\ CliFresh

\* a Client as NewClient leaves it, in a repository with some branch
\* checked out
CliStart ==
    /\ cliPc = "idle"
    /\ cliConfigured \in BOOLEAN
    /\ head \in HeadNames
    /\ CliFresh

-----------------------------------------------------------------------------
(* Terminal UI (src/unnamed/part_006:170-372) *)

\* the byte 0x1b
ESC == "ESC"

\* Ctrl+C, Ctrl+D, Ctrl+Z
ControlBytes == {"^C", "^D", "^Z"}

\* the bytes the input stream delivers; "x" stands for a byte no case names
Bytes == {"j", "k", "q", "Q", "\r", "\n", ESC, "[", "A", "B", "x"} \cup ControlBytes

\* how the input stream ends: with io.EOF or with another read error
InputEnds == {"EOF", "error"}

\* const lineBreak
lineBreak == <<"\r\n">>

ErrUINotConfigured == Err("ui", <<"ui input and output must be configured">>)
ErrMakeRaw == Err("raw", <<"failed to configure terminal for interactive input">>)

\* fmt.Fprintf(u.out, "already on '%s'%s", selected.Name, lineBreak)
AlreadyOnLine(name) == [kind |-> "text", rows |-> <<>>, selected |-> 0,
                        text |-> <<"already on '">> \o name \o <<"'">> \o lineBreak]

\* what u.render writes: the rows with the marker on the selected one
Frame(rows, selected) == [kind |-> "frame", rows |-> rows, selected |-> selected,
                          text |-> <<>>]

\* a write to u.out; the failAt-th write fails and writes nothing
Write(out, item, failAt) ==
    IF Len(out) + 1 = failAt
    THEN [out |-> out, err |-> TRUE]
    ELSE [out |-> Append(out, item), err |-> FALSE]

\* a quit test that forgets Ctrl+Z
IsQuitByteNoSuspend(b) == b \in {"^C", "^D", "q", "Q"}

\* case 0x03, 0x04, 0x1a and case 'q', 'Q'
IsQuitByte(b) == b \in ControlBytes \cup {"q", "Q"}

\* case '\r', '\n'
IsConfirmByte(b) == b \in {"\r", "\n"}

\* a down-movement that is not clamped
CanAlwaysMoveDown(idx, maxIndex) == TRUE

\* index < maxIndex
CanMoveDown(idx, maxIndex) == idx < maxIndex

\* index > 0
CanMoveUp(idx) == idx > 0

\* an Up arrow that never moves
EscapeNeverUp(idx) == FALSE

\* case 'A': if *index > 0
EscapeCanMoveUp(idx) == idx > 0

\* maxIndex >= 0 && *index < maxIndex
EscapeCanMoveDown(idx, maxIndex) == maxIndex >= 0 /\ idx < maxIndex

\* what one pass of the loop found
Event(idx, consumed, render, outcome, ended) ==
    [index |-> idx, consumed |-> consumed, render |-> render,
     outcome |-> outcome, ended |-> ended]

\* the outcome of a read that found no byte
ReadFailure(end) == IF end = "EOF" THEN "loop" ELSE "readError"

\* u.handleEscape: rest holds the bytes that follow ESC, end what the
\* reader answers after them
HandleEscape(idx, maxIndex, rest, end) ==
    IF rest = <<>>
    THEN Event(idx, 1, FALSE, ReadFailure(end), TRUE)
    ELSE IF rest[1] # "["
    THEN Event(idx, 2, FALSE, "loop", FALSE)
    ELSE IF Len(rest) < 2
    THEN Event(idx, 2, FALSE, ReadFailure(end), TRUE)
    ELSE IF rest[2] = "A" /\ EscapeCanMoveUp(idx)
    THEN Event(idx - 1, 3, TRUE, "loop", FALSE)
    ELSE IF rest[2] = "B" /\ EscapeCanMoveDown(idx, maxIndex)
    THEN Event(idx + 1, 3, TRUE, "loop", FALSE)
    ELSE Event(idx, 3, FALSE, "loop", FALSE)

\* a choice that always takes the first row
FirstRow(rows, idx) == rows[1]

\* selected := branches[index]
SelectedRow(rows, idx) == rows[idx + 1]

\* a test that finds no row current
NeverCurrent(row) == FALSE

\* selected.Current
IsCurrent(row) == row.Current

\* the confirm key
Confirm(rows, idx) ==
    IF Len(rows) = 0
    THEN "quit"
    ELSE IF IsCurrent(SelectedRow(rows, idx)) THEN "alreadyOn" ELSE "selected"

\* a down key that takes every unnamed byte as well
IsDownKeyOrOther(b) == b \in {"j", "x"}

\* case 'j'
IsDownKey(b) == b = "j"

\* one pass of the loop of Select: look holds the bytes the reader still
\* has, end what it answers after them
\* a loop that goes on reading at the end of the input
NoByteRetry(end) == IF end = "EOF" THEN "loop" ELSE "readError"

\* b, err := reader.ReadByte() answered with an error (part_006:194-200)
NoByte(end) == IF end = "EOF" THEN "quit" ELSE "readError"

\* a loop that takes ESC for one more key to ignore
NoEscapeByte(b) == FALSE

\* case 0x1b (part_006:233)
IsEscapeByte(b) == b = ESC

KeyEvent(rows, idx, look, end) ==
    LET maxIndex == Len(rows) - 1 IN
    IF look = <<>>
    THEN Event(idx, 0, FALSE, NoByte(end), TRUE)
    ELSE LET b == look[1] IN
         IF IsQuitByte(b) THEN Event(idx, 1, FALSE, "quit", FALSE)
         ELSE IF IsDownKey(b)
         THEN IF CanMoveDown(idx, maxIndex)
              THEN Event(idx + 1, 1, TRUE, "loop", FALSE)
              ELSE Event(idx, 1, FALSE, "loop", FALSE)
         ELSE IF b = "k"
         THEN IF CanMoveUp(idx)
              THEN Event(idx - 1, 1, TRUE, "loop", FALSE)
              ELSE Event(idx, 1, FALSE, "loop", FALSE)
         ELSE IF IsConfirmByte(b) THEN Event(idx, 1, FALSE, Confirm(rows, idx), FALSE)
         ELSE IF IsEscapeByte(b)
         THEN HandleEscape(idx, maxIndex, Tail(look), end)
         ELSE Event(idx, 1, FALSE, "loop", FALSE)

\* where Select stands after a pass: still looping, or returned
Looping(out) == [pc |-> "loop", res |-> NoResult, err |-> NilErr, out |-> out]
Returned(res, err, out) == [pc |-> "returned", res |-> res, err |-> err, out |-> out]

\* an already-on Result that is a quit as well
AlreadyOnAndQuit(name) == Result(name, TRUE, TRUE)

\* Result{Branch: selected.Name, AlreadyOn: true}
AlreadyOnResult(name) == Result(name, FALSE, TRUE)

\* Result{Quit: true}
QuitResult == Result(<<>>, TRUE, FALSE)

\* a loop that renders after every pass
AlwaysUpdated(ev) == TRUE

\* the render of a pass: under index < maxIndex and index > 0 for 'j' and
\* 'k' (lines 206-217), under updated for the arrows (lines 279-282)
Updated(ev) == ev.render

\* the bytes of a pass are a movement key: 'j', 'k', or an arrow sequence
IsMovementKey(look) ==
    look \in { <<"j">>, <<"k">>, <<ESC, "[", "A">>, <<ESC, "[", "B">> }

\* what Select does with the event of a pass
AfterKey(rows, ev, out, failAt) ==
    CASE ev.outcome = "quit" -> Returned(QuitResult, NilErr, out)
      [] ev.outcome = "readError" -> Returned(NoResult, ErrRead, out)
      [] ev.outcome = "selected" ->
            Returned(Result(SelectedRow(rows, ev.index).Name, FALSE, FALSE), NilErr, out)
      [] ev.outcome = "alreadyOn" ->
            LET name == SelectedRow(rows, ev.index).Name
                w == Write(out, AlreadyOnLine(name), failAt)
            IN  IF w.err THEN Returned(NoResult, ErrWrite, w.out)
                ELSE Returned(AlreadyOnResult(name), NilErr, w.out)
      [] OTHER ->
            IF Updated(ev)
            THEN LET w == Write(out, Frame(rows, ev.index), failAt)
                 IN  IF w.err THEN Returned(NoResult, ErrWrite, w.out)
                     ELSE Looping(w.out)
            ELSE Looping(out)

\* the candidate lists Select is called with: no row, rows with the current
\* branch first as Run builds them, the current branch elsewhere, and no
\* current branch
UIBranchLists ==
    LET full == << Branch(<<"m">>, TRUE), Branch(<<"a">>, FALSE),
                   Branch(<<"b">>, FALSE), Branch(<<"c">>, FALSE) >>
        late == << Branch(<<"a">>, FALSE), Branch(<<"m">>, TRUE),
                   Branch(<<"b">>, FALSE), Branch(<<"c">>, FALSE) >>
        none == << Branch(<<"a">>, FALSE), Branch(<<"b">>, FALSE),
                   Branch(<<"m">>, FALSE), Branch(<<"c">>, FALSE) >>
    IN  { SubSeq(l, 1, n) : l \in {full, late, none},
                            n \in {k \in 0..MaxRows : k <= 4} }

\* what u.in is: an io.Reader that is no *os.File, a file that is no
\* terminal, or a terminal
InputKinds == {"reader", "file", "terminal"}

\* a test that takes every input for a terminal
AnyInput(kind) == TRUE

\* u.in.(*os.File) and term.IsTerminal(fd)
IsInteractive(kind) == kind = "terminal"

\* a return that leaves the terminal as it is
RestoreSkipped(mode, calls) == calls

\* defer restore(): term.Restore runs when Select returns, if raw mode was
\* entered; its error is dropped
DeferredRestore(mode, calls) ==
    IF mode = "raw" THEN Append(calls, "Restore") ELSE calls

NoUIReturn == [res |-> NoResult, err |-> Err("unset", <<>>)]

\* Select returning
UIReturn(res, err, mode, calls) ==
    /\ uiPc' = "returned"
    /\ uiRet' = [res |-> res, err |-> err]
    /\ termCalls' = DeferredRestore(mode, calls)
    /\ rawMode' = IF DeferredRestore(mode, calls) # calls THEN "cooked" ELSE mode

\* Select up to the first render: the nil checks and u.enterRawMode
SelectBegin ==
    /\ uiPc = "idle"
    /\ IF uiStreams = "nil"
       THEN UIReturn(NoResult, ErrUINotConfigured, rawMode, termCalls)
       ELSE IF ~IsInteractive(inKind)
       THEN /\ uiPc' = "render"
            /\ UNCHANGED <<uiRet, termCalls, rawMode>>
       ELSE \/ UIReturn(NoResult, ErrMakeRaw, rawMode, Append(termCalls, "MakeRaw"))
            \/ /\ termCalls' = Append(termCalls, "MakeRaw")
               /\ rawMode' = "raw"
               /\ uiPc' = "render"
               /\ UNCHANGED uiRet
    /\ UNCHANGED <<uiStreams, inKind, uiBranches, index, uiEnded, nread, uiOut,
                   uiFailAt, lastKey, moveLog, uiFrame>>

\* index := 0 and the first render
SelectRender ==
    /\ uiPc = "render"
    /\ LET w == Write(uiOut, Frame(uiBranches, 0), uiFailAt) IN
          /\ uiOut' = w.out
          /\ IF w.err
             THEN UIReturn(NoResult, ErrWrite, rawMode, termCalls)
             ELSE /\ uiPc' = "loop"
                  /\ UNCHANGED <<uiRet, termCalls, rawMode>>
    /\ index' = 0
    /\ UNCHANGED <<uiStreams, inKind, uiBranches, uiEnded, nread, uiFailAt,
                   lastKey, moveLog, uiFrame>>

\* one pass of the loop: reader.ReadByte and the switch on the byte
SelectKey ==
    /\ uiPc = "loop"
    /\ \E look \in SeqsUpTo(Bytes, 3), end \in InputEnds :
          LET ev == KeyEvent(uiBranches, index, look, end)
              st == AfterKey(uiBranches, ev, uiOut, uiFailAt)
          IN  /\ Len(look) <= MaxInput - nread
              /\ uiEnded => look = <<>> /\ end = "EOF"
              /\ ev.consumed = Len(look)
              /\ ~ev.ended => end = "EOF"
              /\ nread' = nread + Len(look)
              /\ uiEnded' = (uiEnded \/ (ev.ended /\ end = "EOF"))
              /\ lastKey' = IF ev.ended THEN Append(look, end) ELSE look
              /\ moveLog' = IF IsMovementKey(look)
                            THEN Append(moveLog, ev.index # index)
                            ELSE moveLog
              /\ index' = ev.index
              /\ uiOut' = st.out
              /\ IF st.pc = "returned"
                 THEN UIReturn(st.res, st.err, rawMode, termCalls)
                 ELSE UNCHANGED <<uiPc, uiRet, termCalls, rawMode>>
    /\ UNCHANGED <<uiStreams, inKind, uiBranches, uiFailAt, uiFrame>>

\* Select's local state before its first step
UIFresh ==
    /\ index = 0
    /\ uiEnded = FALSE
    /\ nread = 0
    /\ uiOut = <<>>
    /\ termCalls = <<>>
    /\ rawMode = "cooked"
    /\ lastKey = <<>>
    /\ moveLog = <<>>
    /\ uiRet = NoUIReturn

\* the UI while another component runs
UIIdle ==
    /\ uiPc = "unused"
    /\ uiStreams = "set"
    /\ inKind = "reader"
    /\ uiBranches = <<>>
    /\ uiFailAt = 0
    /\ UIFresh

\* a UI as New leaves it, about to be asked to Select
UIStart ==
    /\ uiPc = "idle"
    /\ uiStreams \in {"set", "nil"}
    /\ inKind \in InputKinds
    /\ uiBranches \in UIBranchLists
    /\ uiFailAt \in 0..MaxWrites
    /\ UIFresh

\* the positions of the cursor so far, with the one a pass moved it to
Moved(traj, from, to) == IF to = from THEN traj ELSE Append(traj, to)

\* Select as a function of its input: the passes of the loop over the bytes
\* of input. traj collects the positions of the cursor, last is the byte the
\* returning pass read ("" at the end of the input).
RECURSIVE RunKeys(_, _, _, _, _, _, _)
RunKeys(rows, idx, input, end, failAt, out, traj) ==
    LET ev == KeyEvent(rows, idx, input, end)
        st == AfterKey(rows, ev, out, failAt)
    IN  IF st.pc = "returned"
        THEN [res |-> st.res, err |-> st.err, out |-> st.out,
              traj |-> Moved(traj, idx, ev.index),
              last |-> IF input = <<>> THEN "" ELSE input[1]]
        ELSE RunKeys(rows, ev.index, SubSeq(input, ev.consumed + 1, Len(input)),
                     end, failAt, st.out, Moved(traj, idx, ev.index))

\* Select over a reader that holds input
SelectRun(rows, input, end, failAt) ==
    LET w == Write(<<>>, Frame(rows, 0), failAt)
    IN  IF w.err
        THEN [res |-> NoResult, err |-> ErrWrite, out |-> w.out, traj |-> <<0>>,
              last |-> ""]
        ELSE RunKeys(rows, 0, input, end, failAt, w.out, <<0>>)

\* input with every ESC '[' 'B' replaced by 'j' and every ESC '[' 'A' by 'k'
RECURSIVE SwapArrows(_)
SwapArrows(input) ==
    IF input = <<>> THEN <<>>
    ELSE IF Len(input) >= 3 /\ SubSeq(input, 1, 3) = <<ESC, "[", "B">>
    THEN <<"j">> \o SwapArrows(SubSeq(input, 4, Len(input)))
    ELSE IF Len(input) >= 3 /\ SubSeq(input, 1, 3) = <<ESC, "[", "A">>
    THEN <<"k">> \o SwapArrows(SubSeq(input, 4, Len(input)))
    ELSE <<input[1]>> \o SwapArrows(Tail(input))

\* the bytes of the inputs Select is replayed over
KeysBytes == {"j", "k", "\r", "q", ESC, "[", "A", "B"}

\* the candidate lists Select is replayed over
KeysLists ==
    { <<>>,
      << Branch(<<"m">>, TRUE), Branch(<<"a">>, FALSE) >>,
      << Branch(<<"m">>, TRUE), Branch(<<"a">>, FALSE), Branch(<<"b">>, FALSE) >>,
      << Branch(<<"a">>, FALSE), Branch(<<"b">>, FALSE) >> }

NoRun == [res |-> NoResult, err |-> Err("unset", <<>>), out |-> <<>>, traj |-> <<>>,
          last |-> ""]

\* Select called over keysInput, and over keysInput with its arrows swapped
Replay ==
    /\ keysPc = "idle"
    /\ keysPc' = "done"
    /\ keysRun' = SelectRun(keysBranches, keysInput, keysEnd, keysFailAt)
    /\ keysSwapped' = SelectRun(keysBranches, SwapArrows(keysInput), keysEnd, keysFailAt)
    /\ UNCHANGED <<keysBranches, keysInput, keysEnd, keysFailAt, keysFrame>>

KeysIdle ==
    /\ keysPc = "unused"
    /\ keysBranches = <<>>
    /\ keysInput = <<>>
    /\ keysEnd = "EOF"
    /\ keysFailAt = 0
    /\ keysRun = NoRun
    /\ keysSwapped = NoRun

KeysStart ==
    /\ keysPc = "idle"
    /\ keysBranches \in KeysLists
    /\ keysInput \in SeqsUpTo(KeysBytes, MaxKeys)
    /\ keysEnd \in InputEnds
    /\ keysFailAt \in 0..MaxWrites
    /\ keysRun = NoRun
    /\ keysSwapped = NoRun

-----------------------------------------------------------------------------
(* The reflog parser of the git client (internal/git/git.go, lines 416-481).
   A text is a sequence of tokens: the opening words of a subject, names,
   the word " to " with its blanks, blanks, quotes and line ends. *)

\* const prefixMoveFrom = "checkout: moving from " (line 446)
prefixMoveFrom == <<"checkout: moving from", " ">>
\* const prefixMoveTo = "checkout: moving to " (line 447)
prefixMoveTo == <<"checkout: moving to", " ">>
\* const prefixSwitching = "checkout: switching to " (line 448)
prefixSwitching == <<"checkout: switching to", " ">>

\* the cutset "'\"" of strings.Trim (lines 459, 466, 473)
Quotes == {"'", "\""}

\* strings.HasPrefix
HasPrefix(s, prefix) ==
    /\ Len(s) >= Len(prefix)
    /\ SubSeq(s, 1, Len(prefix)) = prefix

\* strings.TrimPrefix
TrimPrefix(s, prefix) ==
    IF HasPrefix(s, prefix) THEN SubSeq(s, Len(prefix) + 1, Len(s)) ELSE s

\* strings.LastIndex for a one-token substring; 0 stands for Go's -1
LastIndexOf(s, sub) ==
    IF \E i \in 1..Len(s) : s[i] = sub
    THEN CHOOSE i \in 1..Len(s) :
            /\ s[i] = sub
            /\ \A j \in (i + 1)..Len(s) : s[j] # sub
    ELSE 0

\* a Trim that leaves the quotes in place
TrimNothing(s, cutset) == s

\* strings.Trim
RECURSIVE Trim(_, _)
Trim(s, cutset) ==
    IF s = <<>> THEN <<>>
    ELSE IF Head(s) \in cutset THEN Trim(Tail(s), cutset)
    ELSE IF s[Len(s)] \in cutset THEN Trim(SubSeq(s, 1, Len(s) - 1), cutset)
    ELSE s

\* strings.Split(s, "\n")
RECURSIVE Split(_)
Split(s) ==
    IF \E i \in 1..Len(s) : s[i] = "\n"
    THEN LET i == CHOOSE k \in 1..Len(s) :
                      /\ s[k] = "\n"
                      /\ \A j \in 1..(k - 1) : s[j] # "\n"
         IN  <<SubSeq(s, 1, i - 1)>> \o Split(SubSeq(s, i + 1, Len(s)))
    ELSE <<s>>

\* the loop of splitAndFilter (lines 430-436)
RECURSIVE FilterLines(_)
FilterLines(raw) ==
    IF raw = <<>> THEN <<>>
    ELSE LET line == TrimSpace(Head(raw)) IN
         IF line = <<>> THEN FilterLines(Tail(raw))
         ELSE <<line>> \o FilterLines(Tail(raw))

\* splitAndFilter
SplitAndFilter(s) == FilterLines(Split(TrimSpace(s)))

NoBranch == [branch |-> <<>>, ok |-> FALSE]

\* the three cases' common end: trim, unquote, reject the empty name
Destination(text) ==
    LET branch == Trim(TrimSpace(text), Quotes) IN
    IF branch = <<>> THEN NoBranch ELSE [branch |-> branch, ok |-> TRUE]

\* extractBranchFromSubject
ExtractBranchFromSubject(subject) ==
    IF subject = <<>> THEN NoBranch
    ELSE IF HasPrefix(subject, prefixMoveFrom)
    THEN LET rest == TrimPrefix(subject, prefixMoveFrom)
             idx == LastIndexOf(rest, " to ")
         IN  IF idx = 0 THEN NoBranch
             ELSE Destination(SubSeq(rest, idx + 1, Len(rest)))
    ELSE IF HasPrefix(subject, prefixMoveTo)
    THEN Destination(TrimPrefix(subject, prefixMoveTo))
    ELSE IF HasPrefix(subject, prefixSwitching)
    THEN Destination(TrimPrefix(subject, prefixSwitching))
    ELSE NoBranch

\* the loop of parseReflogSubjects (lines 419-423)
RECURSIVE ParseLines(_)
ParseLines(lines) ==
    IF lines = <<>> THEN <<>>
    ELSE LET r == ExtractBranchFromSubject(Head(lines)) IN
         (IF r.ok THEN <<r.branch>> ELSE <<>>) \o ParseLines(Tail(lines))

\* parseReflogSubjects
ParseReflogSubjects(output) == ParseLines(SplitAndFilter(output))

\* how a subject opens: one of the three switch phrasings, another checkout
\* or reset subject, a commit, or nothing
SubjectHeads ==
    { prefixMoveFrom, prefixMoveTo, prefixSwitching,
      <<"reset: moving to", " ">>, <<"commit:", " ">>, <<>> }

\* what follows the opening words
SubjectTokens == {"a", "b", " to ", " ", "'"}

Subjects ==
    { h \o t : h \in SubjectHeads, t \in SeqsUpTo(SubjectTokens, MaxSubject) }

\* the lines of the longer outputs
SampleLines ==
    { prefixMoveFrom \o <<"m", " to ", "a">>,
      prefixMoveFrom \o <<"a", " to ", "b">>,
      prefixMoveFrom \o <<"m">>,
      prefixMoveTo \o <<"b">>,
      prefixMoveTo \o <<"'", "'">>,
      prefixSwitching \o <<"'", "a", "'">>,
      <<" ">> \o prefixSwitching \o <<"\"", "m", "\"", " ">>,
      <<"commit:", " ", "a">>,
      prefixMoveFrom \o <<"m", " to ", "HEAD", "~1">>,
      prefixMoveTo \o <<"1a2b3c4">>,
      <<" ">>,
      <<>> }

\* strings.Join(lines, "\n")
RECURSIVE JoinLines(_)
JoinLines(lines) ==
    IF lines = <<>> THEN <<>>
    ELSE IF Len(lines) = 1 THEN lines[1]
    ELSE lines[1] \o <<"\n">> \o JoinLines(Tail(lines))

\* the reflog outputs the parser is run over
ReflogOutputs ==
    Subjects \cup { JoinLines(ls) : ls \in SeqsUpTo(SampleLines, MaxLines) }

\* branches := parseReflogSubjects(output)
ParseReflog ==
    /\ parsePc = "start"
    /\ parseBranches' = ParseReflogSubjects(parseOutput)
    /\ parsePc' = "done"
    /\ UNCHANGED <<parseOutput, parseFrame>>

ParseStart ==
    /\ parsePc = "start"
    /\ parseOutput \in ReflogOutputs
    /\ parseBranches = <<>>

\* the parser before any call and while another component runs
ParseIdle ==
    /\ parsePc = "idle"
    /\ parseOutput = <<>>
    /\ parseBranches = <<>>

-----------------------------------------------------------------------------
(* The navigator that filters by the local branches (src/unnamed/part_005),
   beside the navigator that asks BranchExists *)

\* a filter that lets every name of the history through
InAnySet(branch, localSet) == TRUE

\* if _, ok := localSet[branch]; !ok { continue }
InLocalSet(branch, localSet) == branch \in localSet

\* appendCandidate: the result after one candidate was offered
AppendCandidate(result, branch, cur) ==
    IF branch = <<>> \/ branch = cur \/ branch \in Range(result)
    THEN result
    ELSE Append(result, branch)

\* for _, branch := range list, from entry i on; filtered says whether the
\* entries are tested against localSet (the history loop) or not (the loop
\* over locals)
RECURSIVE AppendCandidates(_, _, _, _, _, _, _)
AppendCandidates(i, list, result, cur, l, localSet, filtered) ==
    IF i > Len(list) \/ Len(result) >= l
    THEN result
    ELSE IF filtered /\ ~InLocalSet(list[i], localSet)
    THEN AppendCandidates(i + 1, list, result, cur, l, localSet, filtered)
    ELSE AppendCandidates(i + 1, list, AppendCandidate(result, list[i], cur),
                          cur, l, localSet, filtered)

\* result[:limit]
Truncate(result, l) ==
    IF Len(result) > l THEN SubSeq(result, 1, l) ELSE result

\* Navigator.RecentBranches of part_005 when no git call fails
RecentBranchesLocal(cur, l, hist, locs) ==
    IF l <= 0
    THEN <<>>
    ELSE LET localSet == Range(locs)
             fromHistory ==
                 AppendCandidates(1, hist, <<>>, cur, l, localSet, TRUE)
         IN  IF Len(fromHistory) >= l
             THEN Truncate(fromHistory, l)
             ELSE Truncate(AppendCandidates(1, locs, fromHistory, cur, l,
                                            localSet, FALSE), l)

\* the branch names a repository can hold and a reflog can name
RepoNames == BranchNames

\* both navigators called on one repository
Compare ==
    /\ cmpPc = "start"
    /\ cmpPc' = "done"
    /\ cmpVerified' = RecentBranches(cmpCurrent, cmpLimit, history, locals)
    /\ cmpFiltered' = RecentBranchesLocal(cmpCurrent, cmpLimit, history, locals)
    /\ UNCHANGED <<cmpLimit, cmpCurrent, history, locals, navVars, cmpFrame>>

\* a repository in which BranchExists holds exactly for the names of locals
CmpStart ==
    /\ cmpPc = "start"
    /\ cmpLimit \in Limits
    /\ cmpCurrent \in RepoNames
    /\ history \in SeqsUpTo(RepoNames, MaxReflog)
    /\ locals \in SeqsUpTo(RepoNames, MaxFallback)
    /\ existing = Range(locals)
    /\ cmpVerified = <<>>
    /\ cmpFiltered = <<>>

\* the comparison while another component runs
CmpIdle ==
    /\ cmpPc = "idle"
    /\ cmpLimit = 0
    /\ cmpCurrent = <<>>
    /\ history = <<>>
    /\ locals = <<>>
    /\ cmpVerified = <<>>
    /\ cmpFiltered = <<>>

-----------------------------------------------------------------------------
(* main (src/cmd/branch-navigator/main.go): terminal.Select and
   handleDeleteAction are both handed os.Stdin *)

\* the number of bytes the loop of Select reads from input before it returns
RECURSIVE BytesRead(_, _, _, _)
BytesRead(rows, idx, input, n) ==
    LET ev == KeyEvent(rows, idx, input, "EOF")
        st == AfterKey(rows, ev, <<>>, 0)
    IN  IF st.pc = "returned"
        THEN n + ev.consumed
        ELSE BytesRead(rows, ev.index,
                       SubSeq(input, ev.consumed + 1, Len(input)),
                       n + ev.consumed)

\* reader := bufio.NewReader(u.in) (part_006:186): ReadByte serves the loop
\* from a buffer that is filled by Read calls on u.in, and a Read hands over
\* any number of the bytes the stream holds, from one to all of them. When
\* Select returns, the bytes taken from the stream are those the loop read
\* and any number of those that follow.
TakenFromStream(consumed, available) == consumed..available

\* terminal.Select(uiBranches) on os.Stdin (main.go:190-191)
SessionSelect ==
    /\ sesPc = "select"
    /\ LET run == SelectRun(sesRows, stdin, "EOF", 0)
           consumed == BytesRead(sesRows, 0, stdin, 0)
       IN  /\ sesResult' = [res |-> run.res, err |-> run.err]
           /\ \E taken \in TakenFromStream(consumed, Len(stdin)) :
                  stdin' = SubSeq(stdin, taken + 1, Len(stdin))
           /\ sesPc' = IF run.err # NilErr \/ NothingToDo(run.res)
                       THEN "done" ELSE "delete"
    /\ UNCHANGED <<sesRows, sesInput, sesFirst, sesConfirm, sesDeletes, sesErr,
                   sesFrame>>

\* handleDeleteAction up to the outcome of the first DeleteBranch
\* (main.go:300-313, 330-331)
SessionDeleteFirst ==
    /\ sesPc = "delete"
    /\ \E err \in {NilErr, ErrBranchNotFullyMerged, ErrGit} :
           /\ sesFirst' = err
           /\ sesDeletes' = Append(sesDeletes, FALSE)
           /\ IF err = NilErr
              THEN sesPc' = "done" /\ sesErr' = NilErr
              ELSE IF IsNotFullyMerged(err)
              THEN sesPc' = "confirm" /\ UNCHANGED sesErr
              ELSE sesPc' = "done" /\ sesErr' = err
    /\ UNCHANGED <<sesRows, sesInput, stdin, sesResult, sesConfirm, sesFrame>>

\* confirmBranchDeletion(in, out, branch) on os.Stdin and what
\* handleDeleteAction makes of it (main.go:314-320, 336-354)
SessionConfirm ==
    /\ sesPc = "confirm"
    /\ LET read == ReadString(stdin)
           c == Confirmation(read)
       IN  /\ sesConfirm' = c
           /\ stdin' = SubSeq(stdin, Len(read.line) + 1, Len(stdin))
           /\ IF c.err # NilErr
              THEN sesPc' = "done" /\ sesErr' = c.err
              ELSE IF ~c.confirmed
              THEN sesPc' = "done" /\ sesErr' = ErrAborted
              ELSE sesPc' = "force" /\ UNCHANGED sesErr
    /\ UNCHANGED <<sesRows, sesInput, sesResult, sesFirst, sesDeletes,
                   sesFrame>>

\* the forced DeleteBranch (main.go:321-328)
SessionForce ==
    /\ sesPc = "force"
    /\ \E err \in {NilErr, ErrGit} :
           /\ sesDeletes' = Append(sesDeletes, TRUE)
           /\ sesErr' = err
    /\ sesPc' = "done"
    /\ UNCHANGED <<sesRows, sesInput, stdin, sesResult, sesFirst, sesConfirm,
                   sesFrame>>

\* the bytes os.Stdin can hold: a movement key, the confirm key, and the
\* letters of an answer
StreamBytes == {"j", "\n", "y", "n"}

\* main before terminal.Select
SesStart ==
    /\ sesPc = "select"
    /\ sesRows \in KeysLists
    /\ sesInput \in SeqsUpTo(StreamBytes, MaxStream)
    /\ stdin = sesInput
    /\ sesResult = NoUIReturn
    /\ sesFirst = Err("unset", <<>>)
    /\ sesConfirm = NoConfirm
    /\ sesDeletes = <<>>
    /\ sesErr = Err("unset", <<>>)

\* main while another component runs
SesIdle ==
    /\ sesPc = "idle"
    /\ sesRows = <<>>
    /\ sesInput = <<>>
    /\ stdin = <<>>
    /\ sesResult = NoUIReturn
    /\ sesFirst = Err("unset", <<>>)
    /\ sesConfirm = NoConfirm
    /\ sesDeletes = <<>>
    /\ sesErr = Err("unset", <<>>)

-----------------------------------------------------------------------------
(* Specifications *)

\* the orchestrator: one run of app.Run
Init == AppStart /\ NavIdle /\ CliIdle /\ UIIdle /\ KeysIdle /\ ParseIdle
    /\ CmpIdle /\ SesIdle
Next ==
    \/ RunValidate
    \/ RunNavigate
    \/ RunCurrentBranch
    \/ RunSelect
    \/ RunCheckout
    \/ RunMerge
    \/ HandleDeleteFirst
    \/ HandleDeleteConfirm
    \/ HandleDeleteForce
Spec == Init /\ [][Next]_vars

\* the navigator: one call of RecentBranches
NavInit == NavStart /\ AppIdle /\ CliIdle /\ UIIdle /\ KeysIdle /\ ParseIdle
    /\ CmpIdle /\ SesIdle
NavNext ==
    \/ RecentBranchesBegin
    \/ RecentBranchesReflog
    \/ RecentBranchesFallback
SpecNav == NavInit /\ [][NavNext]_vars

\* the client: one call of CheckoutBranch or of DeleteBranch
CliInit == CliStart /\ NavIdle /\ AppIdle /\ UIIdle /\ KeysIdle /\ ParseIdle
    /\ CmpIdle /\ SesIdle
CliNext ==
    \/ CheckoutBranchBegin
    \/ CheckoutBranchCurrent
    \/ CheckoutBranchRun
    \/ DeleteBranchBegin
    \/ DeleteBranchCurrent
    \/ DeleteBranchRun
    \/ CurrentBranchCall
    \/ BranchExistsCall
SpecClient == CliInit /\ [][CliNext]_vars

\* the terminal UI: one call of Select
UIInit == UIStart /\ NavIdle /\ AppIdle /\ CliIdle /\ KeysIdle /\ ParseIdle
    /\ CmpIdle /\ SesIdle
UINext ==
    \/ SelectBegin
    \/ SelectRender
    \/ SelectKey
SpecUI == UIInit /\ [][UINext]_vars

\* Select is a synchronous loop over a finite input: a step that can be
\* taken is taken, since every read is answered with a byte, with the end of
\* the input or with an error
SpecUILive == UIInit /\ [][UINext]_vars /\ WF_vars(UINext)

\* Select as a function of the bytes of its input
KeysInit == KeysStart /\ NavIdle /\ AppIdle /\ CliIdle /\ UIIdle /\ ParseIdle
    /\ CmpIdle /\ SesIdle
KeysNext == Replay
SpecKeys == KeysInit /\ [][KeysNext]_vars

\* the reflog parser: one call of parseReflogSubjects
ParseInit ==
    ParseStart /\ NavIdle /\ AppIdle /\ CliIdle /\ UIIdle /\ KeysIdle
    /\ CmpIdle /\ SesIdle
ParseNext == ParseReflog
SpecParse == ParseInit /\ [][ParseNext]_vars

\* the two navigators on one repository
CmpInit ==
    CmpStart /\ NavQuiet /\ AppIdle /\ CliIdle /\ UIIdle /\ KeysIdle
    /\ ParseIdle /\ SesIdle
CmpNext == Compare
SpecCompare == CmpInit /\ [][CmpNext]_vars

\* main with the delete action: Select, then handleDeleteAction
SesInit ==
    SesStart /\ NavIdle /\ AppIdle /\ CliIdle /\ UIIdle /\ KeysIdle
    /\ ParseIdle /\ CmpIdle
SesNext ==
    \/ SessionSelect
    \/ SessionDeleteFirst
    \/ SessionConfirm
    \/ SessionForce
SpecSession == SesInit /\ [][SesNext]_vars

-----------------------------------------------------------------------------
(* Properties of the Navigator, checked under SpecNav *)

NoDuplicates(list) ==
    \A i, j \in 1..Len(list) : list[i] = list[j] => i = j

\* name is an entry of list, white space aside
InList(name, list) == \E p \in 1..Len(list) : TrimSpace(list[p]) = name

\* the place of name's first occurrence in list
FirstIndex(name, list) ==
    CHOOSE p \in 1..Len(list) :
        /\ TrimSpace(list[p]) = name
        /\ \A q \in 1..(p - 1) : TrimSpace(list[q]) # name

Called(op) == \E i \in 1..Len(gitCalls) : gitCalls[i].op = op

NavReturned == navPc = "done"

\* C1: with a limit <= 0 RecentBranches returns an empty list and no error,
\* and has called none of CurrentBranch, ReflogBranchMoves,
\* BranchesByCommitDate and BranchExists.
C1_NonPositiveLimit ==
    (NavReturned /\ limit <= 0) =>
        /\ results = <<>>
        /\ navErr = NoErr
        /\ gitCalls = <<>>

C1_Witness == NavReturned /\ limit = 0

\* C2: with a limit > 0 the list RecentBranches builds and returns never has
\* more than limit names, holds no name twice and does not hold the current
\* branch.
C2_BoundedDistinct ==
    limit > 0 =>
        /\ Len(results) <= limit
        /\ NoDuplicates(results)
        /\ \A i \in 1..Len(results) : results[i] # current

\* a full list, from sources that name the current branch and that share a
\* name
C2_Witness ==
    /\ NavReturned /\ navErr = NoErr
    /\ limit > 1 /\ Len(results) = limit
    /\ InList(current, reflogBranches)
    /\ \E i \in 1..Len(results) :
          InList(results[i], reflogBranches) /\ InList(results[i], fallbackBranches)

\* C3: when both sources were queried, the names accepted from the reflog
\* come first, in the order of their first occurrence in the reflog, and the
\* names accepted from the commit-date list follow, in the order of their
\* first occurrence there.
C3_HistoryFirst ==
    (NavReturned /\ navErr = NoErr /\ Called("BranchesByCommitDate")) =>
        \E k \in 0..Len(results) :
            /\ \A i \in 1..k : InList(results[i], reflogBranches)
            /\ \A i, j \in 1..k :
                  i < j => FirstIndex(results[i], reflogBranches)
                               < FirstIndex(results[j], reflogBranches)
            /\ \A i \in (k + 1)..Len(results) :
                  /\ ~InList(results[i], reflogBranches)
                  /\ InList(results[i], fallbackBranches)
            /\ \A i, j \in (k + 1)..Len(results) :
                  i < j => FirstIndex(results[i], fallbackBranches)
                               < FirstIndex(results[j], fallbackBranches)

\* one name from the reflog, then one from the commit-date list
C3_Witness ==
    /\ NavReturned /\ navErr = NoErr /\ Called("BranchesByCommitDate")
    /\ Len(results) = 2
    /\ InList(results[1], reflogBranches)
    /\ ~InList(results[2], reflogBranches)

\* C4: every name in the list is one BranchExists was asked about and
\* answered true for; a candidate it answers false for is not in the list.
C4_OnlyExisting ==
    \A i \in 1..Len(results) :
        /\ BranchExists(results[i])
        /\ \E c \in 1..Len(gitCalls) :
              gitCalls[c] = GitCall("BranchExists", results[i])

\* a returned list, with a stale name among the candidates examined
C4_Witness ==
    /\ NavReturned /\ navErr = NoErr
    /\ results # <<>>
    /\ \E c \in 1..Len(gitCalls) :
          /\ gitCalls[c].op = "BranchExists"
          /\ ~BranchExists(gitCalls[c].arg)
          /\ InList(gitCalls[c].arg, reflogBranches)

-----------------------------------------------------------------------------
(* Properties of the delete flow, checked under Spec *)

\* the calls of op in the order made
CallsOf(op) == SelectSeq(appLog, LAMBDA c : c.op = op)

RunReturned == appPc = "done"

\* the responses that are "y" or "yes" whatever the case of their letters
AffirmativeAnswers ==
    {<<"y">>, <<"Y">>} \cup
    {<<a, b, c>> : a \in {"y", "Y"}, b \in {"e", "E"}, c \in {"s", "S"}}

\* message is one of the lines written to stream
Printed(stream, message) ==
    \E i \in 1..Len(stream) : stream[i] = message \o <<"\n">>

\* message, when not blank, is one of the lines written to stream
PrintedIfNotBlank(stream, message) ==
    TrimSpace(message) # <<>> => Printed(stream, TrimSpace(message))

PromptWritten ==
    \E i \in 1..Len(outStream) : outStream[i] = Prompt(selResult.Branch)

LastLine(stream) == stream[Len(stream)]

\* C5: when the first DeleteBranch fails as not fully merged and the line
\* read at the prompt is "y", DeleteBranch is called exactly twice, the
\* second time with Force set; and when the second call succeeds Run returns
\* 0, the forced delete's stdout is on the output stream and the first
\* attempt's warning is on the error stream.
C5_ConfirmedForce ==
    ( /\ RunReturned
      /\ delFirst.err = ErrBranchNotFullyMerged
      /\ confirm.err = NilErr
      /\ confirm.line \in {<<"y", "\n">>, <<"y">>} ) =>
        /\ CallsOf("DeleteBranch") =
              << AppCall("DeleteBranch", selResult.Branch, FALSE),
                 AppCall("DeleteBranch", selResult.Branch, TRUE) >>
        /\ delForced.err = NilErr =>
              /\ exitCode = 0
              /\ PrintedIfNotBlank(outStream, delForced.Stdout)
              /\ PrintedIfNotBlank(errStream, delFirst.Stderr)

\* the forced delete succeeded after a "y", with a warning and an output
C5_Witness ==
    /\ RunReturned
    /\ delFirst.err = ErrBranchNotFullyMerged
    /\ delFirst.Stderr = <<"w">>
    /\ confirm.line = <<"y", "\n">>
    /\ delForced.err = NilErr
    /\ delForced.Stdout = <<"o">>
    /\ exitCode = 0

\* C6: when the first DeleteBranch fails as not fully merged and the
\* response read is empty or not an affirmative one, DeleteBranch is called
\* exactly once, never with Force set, and the run ends with the failure
\* "branch deletion aborted" and a non-zero exit code.
C6_DeclinedAborts ==
    ( /\ RunReturned
      /\ delFirst.err = ErrBranchNotFullyMerged
      /\ confirm.err = NilErr
      /\ TrimSpace(confirm.line) \notin AffirmativeAnswers ) =>
        /\ CallsOf("DeleteBranch") =
              << AppCall("DeleteBranch", selResult.Branch, FALSE) >>
        /\ exitCode # 0
        /\ errStream # <<>>
        /\ LastLine(errStream) = ErrAborted.msg \o <<"\n">>

\* the user answered "n"
C6_Witness ==
    /\ RunReturned
    /\ delFirst.err = ErrBranchNotFullyMerged
    /\ confirm.err = NilErr
    /\ confirm.line = <<"n", "\n">>
    /\ exitCode = 1

\* C7: a forced DeleteBranch comes only right after an unforced one for the
\* same branch that failed as not fully merged and that the user confirmed;
\* DeleteBranch is called at most twice and CheckoutBranch and MergeBranch at
\* most once; any other failure of the first delete ends the run with that
\* failure, no prompt and no second call; a failure of the forced delete ends
\* the run with that failure and no third call.
C7_NoSilentRetry ==
    /\ \A i \in 1..Len(appLog) :
          (appLog[i].op = "DeleteBranch" /\ appLog[i].Force) =>
              /\ i > 1
              /\ appLog[i - 1] = AppCall("DeleteBranch", appLog[i].branch, FALSE)
              /\ delFirst.err = ErrBranchNotFullyMerged
              /\ confirm.err = NilErr
              /\ TrimSpace(confirm.line) \in AffirmativeAnswers
    /\ Len(CallsOf("DeleteBranch")) <= 2
    /\ Len(CallsOf("CheckoutBranch")) <= 1
    /\ Len(CallsOf("MergeBranch")) <= 1
    /\ delFirst.err \in {ErrGit, ErrDeleteCurrentBranch} =>
          /\ RunReturned /\ exitCode = 1
          /\ ~PromptWritten
          /\ confirm = NoConfirm
          /\ Len(CallsOf("DeleteBranch")) = 1
          /\ LastLine(errStream) = delFirst.err.msg \o <<"\n">>
    /\ delForced.err \notin {NoAnswer.err, NilErr} =>
          /\ RunReturned /\ exitCode = 1
          /\ Len(CallsOf("DeleteBranch")) = 2
          /\ LastLine(errStream) = delForced.err.msg \o <<"\n">>

\* the forced delete failed too
C7_Witness ==
    /\ RunReturned
    /\ delForced.err = ErrGit
    /\ Len(CallsOf("DeleteBranch")) = 2

-----------------------------------------------------------------------------
(* Properties of the Repository Client, checked under SpecClient *)

ClientReturned(op) == cliPc = "returned" /\ cliOp = op

\* the invocations of the git command named cmd
Invocations(cmd) == SelectSeq(runnerCalls, LAMBDA args : args[1] = <<cmd>>)

\* C8 as claimed: with name equal to the current branch CheckoutBranch never
\* invokes the switch and returns already on '<name>' with no error; with
\* any other name it invokes the switch exactly once and returns its output
\* on success or its failure untouched.
C8_AsClaimed ==
    (ClientReturned("CheckoutBranch") /\ cliConfigured) =>
        IF cliArg = head
        THEN /\ Invocations("checkout") = <<>>
             /\ cliRet.out = AlreadyOnMessage(cliArg)
             /\ cliRet.err = NilErr
        ELSE /\ Invocations("checkout") = << ArgsCheckout(cliArg) >>
             /\ \/ runnerLast.err = NilErr /\ cliRet.err = NilErr
                                          /\ cliRet.out = runnerLast.out
                \/ runnerLast.err # NilErr /\ cliRet.err = runnerLast.err

\* C8 as amended: a client with no runner and a blank name fail before any
\* git invocation, and a failed current-branch lookup is returned with no
\* switch. Otherwise, with the name trimmed of white space equal to the
\* current branch, CheckoutBranch never invokes the switch and returns
\* already on '<trimmed name>' with no error; with any other name it invokes
\* the switch exactly once, for the trimmed name, and returns its output on
\* success or its failure untouched, with an empty message.
C8_Checkout ==
    ClientReturned("CheckoutBranch") =>
        IF ~cliConfigured
        THEN runnerCalls = <<>> /\ cliRet.err = ErrNotConfigured
        ELSE IF TrimSpace(cliArg) = <<>>
        THEN runnerCalls = <<>> /\ cliRet.err = ErrBranchRequired
        ELSE IF runnerCalls = << ArgsRevParse >> /\ runnerLast.err # NilErr
        THEN cliRet.err = runnerLast.err /\ cliRet.out = <<>>
        ELSE IF TrimSpace(cliArg) = head
        THEN /\ runnerCalls = << ArgsRevParse >>
             /\ cliRet.out = AlreadyOnMessage(TrimSpace(cliArg))
             /\ cliRet.err = NilErr
        ELSE /\ runnerCalls = << ArgsRevParse, ArgsCheckout(TrimSpace(cliArg)) >>
             /\ \/ /\ runnerLast.err = NilErr
                   /\ cliRet.err = NilErr
                   /\ cliRet.out = runnerLast.out
                \/ /\ runnerLast.err # NilErr
                   /\ cliRet.err = runnerLast.err
                   /\ cliRet.out = <<>>

\* the name is the current branch once its white space is trimmed
C8_Witness ==
    /\ ClientReturned("CheckoutBranch")
    /\ cliArg = <<" ", "a">>
    /\ head = <<"a">>
    /\ cliRet.out = AlreadyOnMessage(<<"a">>)
    /\ cliRet.err = NilErr

\* C9 as claimed: DeleteBranch with name equal to the current branch fails
\* with DeleteCurrentBranch and never invokes the binary, forced or not.
C9_AsClaimed ==
    (ClientReturned("DeleteBranch") /\ cliArg = head) =>
        /\ cliRet.err = ErrDeleteCurrentBranch
        /\ runnerCalls = <<>>

\* C9 as amended: DeleteBranch with name equal to the current branch, once
\* the current-branch lookup has succeeded, fails with DeleteCurrentBranch,
\* forced or not; the lookup is its only git invocation and the branch
\* deletion command is never invoked.
C9_DeleteCurrent ==
    (ClientReturned("DeleteBranch") /\ cliArg = head) =>
        /\ runnerCalls = << ArgsRevParse >>
        /\ Invocations("branch") = <<>>
        /\ runnerLast.err = NilErr => cliRet.err = ErrDeleteCurrentBranch
        /\ runnerLast.err # NilErr => cliRet.err = runnerLast.err

\* a forced delete of the current branch was refused
C9_Witness ==
    /\ ClientReturned("DeleteBranch")
    /\ cliArg = head
    /\ cliForce
    /\ cliRet.err = ErrDeleteCurrentBranch

\* the stderr texts that hold the phrase "not fully merged"
UnmergedTexts ==
    { NotMergedPhrase,
      <<"error:", " ", "The", " ", "branch", " ", "is", " ">> \o NotMergedPhrase \o <<".">> }

\* the unforced delete command was invoked and failed
UnforcedDeleteFailed ==
    /\ ClientReturned("DeleteBranch")
    /\ ~cliForce
    /\ Invocations("branch") = << ArgsBranchDelete(cliArg, FALSE) >>
    /\ runnerLast.err # NilErr

\* C10: an unforced DeleteBranch whose git invocation fails with "not fully
\* merged" in its stderr fails with BranchNotFullyMerged and returns that
\* stderr; one that fails with any other stderr fails with the invocation's
\* own failure, which is not BranchNotFullyMerged.
C10_Classification ==
    UnforcedDeleteFailed =>
        /\ cliRet.stderr = runnerLast.stderr
        /\ IF runnerLast.stderr \in UnmergedTexts
           THEN cliRet.err = ErrBranchNotFullyMerged
           ELSE cliRet.err = runnerLast.err /\ cliRet.err # ErrBranchNotFullyMerged

\* git reported the branch as not fully merged
C10_Witness ==
    /\ UnforcedDeleteFailed
    /\ runnerLast.stderr \in UnmergedTexts
    /\ runnerLast.stderr # NotMergedPhrase
    /\ cliRet.err = ErrBranchNotFullyMerged

-----------------------------------------------------------------------------
(* Properties of the terminal UI, checked under SpecUI and SpecKeys *)

\* the index of the last row, 0 for an empty list
LastIndex == IF Len(uiBranches) = 0 THEN 0 ELSE Len(uiBranches) - 1

CursorInRange == 0 <= index /\ index <= LastIndex

\* the bytes of a down-movement and of an up-movement
DownKeys == { <<"j">>, <<ESC, "[", "B">> }
UpKeys == { <<"k">>, <<ESC, "[", "A">> }

\* what a pass of the loop does to the cursor
CursorStep ==
    uiPc = "loop" =>
        /\ CursorInRange'
        /\ lastKey' \in DownKeys =>
              index' = IF index = LastIndex THEN index ELSE index + 1
        /\ lastKey' \in UpKeys =>
              index' = IF index = 0 THEN index ELSE index - 1
        /\ lastKey' \notin DownKeys \cup UpKeys => index' = index

\* C11: throughout Select the cursor is between 0 and the last index of the
\* candidate list (0 when the list is empty); a down-movement at the last row
\* and an up-movement at row 0 leave it where it is, any other movement
\* changes it by exactly one, and no other byte moves it.
C11_Cursor == []CursorInRange /\ [][CursorStep]_vars

\* a down-movement was read with the cursor on the last of two rows
C11_Witness ==
    /\ uiPc = "loop"
    /\ Len(uiBranches) = 2
    /\ index = 1
    /\ nread = 2
    /\ lastKey = <<"j">>
    /\ uiOut = << Frame(uiBranches, 0), Frame(uiBranches, 1) >>

Min(a, b) == IF a < b THEN a ELSE b

\* n down-movements
RECURSIVE Downs(_)
Downs(n) == IF n = 0 THEN <<>> ELSE <<"j">> \o Downs(n - 1)

\* the last position of the cursor
FinalIndex(run) == run.traj[Len(run.traj)]

\* C12: when the confirm key is read with the cursor on a row not marked
\* current, Select returns that row's branch name with neither Quit nor
\* AlreadyOn set and no error; n down-movements from row 0 followed by Enter
\* select row min(n, last index).
C12_Selected ==
    keysPc = "done" =>
        /\ ( /\ keysRun.last = "\r"
             /\ keysBranches # <<>>
             /\ ~keysBranches[FinalIndex(keysRun) + 1].Current ) =>
                /\ keysRun.err = NilErr
                /\ keysRun.res =
                      Result(keysBranches[FinalIndex(keysRun) + 1].Name, FALSE, FALSE)
        /\ \A n \in 0..MaxKeys :
              LET row == Min(n, Len(keysBranches) - 1) + 1 IN
              ( /\ keysInput = Downs(n) \o <<"\r">>
                /\ keysFailAt = 0
                /\ keysBranches # <<>>
                /\ ~keysBranches[row].Current ) =>
                   keysRun.res = Result(keysBranches[row].Name, FALSE, FALSE)

\* three down-movements over three rows, then Enter
C12_Witness ==
    /\ keysPc = "done"
    /\ keysInput = <<"j", "j", "j", "\r">>
    /\ Len(keysBranches) = 3
    /\ keysFailAt = 0
    /\ keysRun.res = Result(<<"b">>, FALSE, FALSE)

\* the confirm key was read with the cursor on a row marked current
ConfirmedOnCurrent ==
    /\ uiPc = "returned"
    /\ lastKey \in { <<"\r">>, <<"\n">> }
    /\ uiBranches # <<>>
    /\ uiBranches[index + 1].Current

\* C13 as claimed: when the confirm key is read with the cursor on the row
\* marked current, Select returns AlreadyOn with that row's branch name, and
\* already on '<name>' is on the output stream after the last render.
C13_AsClaimed ==
    ConfirmedOnCurrent =>
        /\ uiRet = [res |-> Result(uiBranches[index + 1].Name, FALSE, TRUE),
                    err |-> NilErr]
        /\ uiOut # <<>>
        /\ uiOut[Len(uiOut)] = AlreadyOnLine(uiBranches[index + 1].Name)
        /\ \A i \in 1..(Len(uiOut) - 1) : uiOut[i].kind = "frame"

\* C13 as amended: when the confirm key is read with the cursor on the row
\* marked current, Select writes already on '<name>' after the last render;
\* when that write succeeds it returns AlreadyOn with that row's branch name,
\* and when it fails it returns the error and no Result, the message absent
\* from the output stream.
C13_AlreadyOn ==
    ConfirmedOnCurrent =>
        LET frames == SelectSeq(uiOut, LAMBDA w : w.kind = "frame") IN
        \/ /\ uiFailAt # Len(frames) + 1
           /\ uiRet = [res |-> Result(uiBranches[index + 1].Name, FALSE, TRUE),
                       err |-> NilErr]
           /\ uiOut = Append(frames, AlreadyOnLine(uiBranches[index + 1].Name))
        \/ /\ uiFailAt = Len(frames) + 1
           /\ uiRet = [res |-> NoResult, err |-> ErrWrite]
           /\ uiOut = frames

\* Enter on the current branch after moving away and back
C13_Witness ==
    /\ ConfirmedOnCurrent
    /\ nread = 3
    /\ uiRet.res = Result(<<"m">>, FALSE, TRUE)
    /\ Len(uiOut) = 4

\* the bytes that quit, and the end of the input
QuitKeys == { <<"q">>, <<"Q">>, <<"^C">>, <<"^D">>, <<"^Z">>, <<"EOF">> }

\* C14: from any cursor position and over any candidate list, 'q', 'Q',
\* 0x03, 0x04, 0x1a and the end of the input make Select return Quit with no
\* branch name, AlreadyOn unset and no error; so does the confirm key over
\* an empty candidate list.
C14_Quit ==
    ( /\ uiPc \in {"loop", "returned"}
      /\ \/ lastKey \in QuitKeys
         \/ lastKey \in { <<"\r">>, <<"\n">> } /\ uiBranches = <<>> ) =>
        /\ uiPc = "returned"
        /\ uiRet = [res |-> Result(<<>>, TRUE, FALSE), err |-> NilErr]

\* Ctrl+Z read with the cursor off row 0
C14_Witness ==
    /\ uiPc = "returned"
    /\ lastKey = <<"^Z">>
    /\ index = 2
    /\ uiRet.res.Quit

\* the three outcomes of a Result
IsSelected(r) ==
    /\ ~r.Quit /\ ~r.AlreadyOn
    /\ \E i \in 1..Len(uiBranches) : ~uiBranches[i].Current /\ uiBranches[i].Name = r.Branch
IsQuit(r) == r.Quit /\ r.Branch = <<>>
IsAlreadyOn(r) ==
    /\ r.AlreadyOn
    /\ \E i \in 1..Len(uiBranches) : uiBranches[i].Current /\ uiBranches[i].Name = r.Branch

\* C15: when Select returns without error exactly one of selected, quit and
\* already-on holds of its Result; Quit and AlreadyOn are never both set and
\* a Result with Quit set carries no branch name.
C15_OneOutcome ==
    (uiPc = "returned" /\ uiRet.err = NilErr) =>
        /\ Cardinality({o \in {"selected", "quit", "alreadyOn"} :
              \/ o = "selected" /\ IsSelected(uiRet.res)
              \/ o = "quit" /\ IsQuit(uiRet.res)
              \/ o = "alreadyOn" /\ IsAlreadyOn(uiRet.res)}) = 1
        /\ ~(uiRet.res.Quit /\ uiRet.res.AlreadyOn)
        /\ uiRet.res.Quit => uiRet.res.Branch = <<>>

\* Select returned already-on
C15_Witness ==
    /\ uiPc = "returned"
    /\ uiRet.err = NilErr
    /\ uiRet.res.AlreadyOn
    /\ uiRet.res.Branch = <<"m">>

\* C16: replacing each ESC '[' 'B' of the input by 'j' and each ESC '[' 'A'
\* by 'k' changes neither the positions the cursor takes, nor what is
\* rendered, nor the Result and error Select returns.
C16_ArrowsAsKeys ==
    keysPc = "done" =>
        /\ keysRun.traj = keysSwapped.traj
        /\ keysRun.out = keysSwapped.out
        /\ keysRun.res = keysSwapped.res
        /\ keysRun.err = keysSwapped.err

\* a Down arrow that moved the cursor, then Enter
C16_Witness ==
    /\ keysPc = "done"
    /\ keysInput = <<ESC, "[", "B", "\r">>
    /\ keysFailAt = 0
    /\ keysRun.traj = <<0, 1>>
    /\ keysRun.res = Result(<<"a">>, FALSE, FALSE)

\* C17: term.MakeRaw is called only when the input stream is a terminal;
\* when Select has entered raw mode the terminal stays raw until Select
\* returns, and term.Restore has run by then, on every way out.
C17_RawMode ==
    /\ (\E i \in 1..Len(termCalls) : termCalls[i] = "MakeRaw") =>
          inKind = "terminal" /\ uiStreams = "set"
    /\ rawMode = "raw" => uiPc \in {"render", "loop"}
    /\ uiPc = "returned" =>
          /\ rawMode = "cooked"
          /\ termCalls \in { <<>>, <<"MakeRaw">>, <<"MakeRaw", "Restore">> }
          /\ termCalls = <<"MakeRaw">> => uiRet.err = ErrMakeRaw
          /\ termCalls = <<>> => inKind # "terminal" \/ uiStreams = "nil"

\* raw mode was left after a read error
C17_Witness ==
    /\ uiPc = "returned"
    /\ uiRet.err = ErrRead
    /\ termCalls = <<"MakeRaw", "Restore">>

-----------------------------------------------------------------------------
(* Properties of Run's checks and of its candidate list, checked under Spec *)

\* Run's arguments do not pass its checks
InvalidArguments == optLimit <= 0 \/ depsNil # {}

\* the message Run's checks end with
ValidationMessage ==
    IF optLimit <= 0 THEN <<"limit must be greater than 0">>
    ELSE ValidateDeps(depsNil).msg

\* C18: Run with Limit <= 0 returns 2, and Run with a positive limit and any
\* collaborator unset (git client, navigator, terminal, input, output or
\* error stream) returns 1; either way the error is printed and neither the
\* Navigator, nor the Git client, nor the Terminal is called.
C18_Validation ==
    (InvalidArguments /\ appPc # "start") =>
        /\ RunReturned
        /\ ~panicked
        /\ exitCode = IF optLimit <= 0 THEN 2 ELSE 1
        /\ errStream = << ValidationMessage \o <<"\n">> >>
        /\ appLog = <<>>

\* C19: when the Terminal returns quit or already-on, Run returns 0 and
\* calls none of CheckoutBranch, MergeBranch and DeleteBranch, whichever
\* action is configured.
C19_NothingToDo ==
    (selResult.Quit \/ selResult.AlreadyOn) =>
        /\ RunReturned
        /\ exitCode = 0
        /\ CallsOf("CheckoutBranch") = <<>>
        /\ CallsOf("MergeBranch") = <<>>
        /\ CallsOf("DeleteBranch") = <<>>

\* the Terminal answered already-on in a run configured to delete
C19_Witness ==
    /\ RunReturned
    /\ optAction = "delete"
    /\ selResult.AlreadyOn
    /\ exitCode = 0

\* the rows of a candidate list that are marked current
CurrentRows(rows) == {i \in 1..Len(rows) : rows[i].Current}

\* C20: the candidate list Run hands to the Terminal has the current branch
\* as row 0, marked current, then the Navigator's results in their order,
\* none marked current; exactly one row is marked current and no name is
\* in the list twice.
C20_Candidates ==
    CallsOf("Select") # <<>> =>
        /\ Len(candidates) = Len(appBranches) + 1
        /\ candidates[1] = Branch(appCurrent, TRUE)
        /\ \A i \in 1..Len(appBranches) :
              candidates[i + 1] = Branch(appBranches[i], FALSE)
        /\ CurrentRows(candidates) = {1}
        /\ NoDuplicates([i \in 1..Len(candidates) |-> candidates[i].Name])

\* the Terminal was handed the current branch and two more
C20_Witness ==
    /\ CallsOf("Select") # <<>>
    /\ Len(candidates) = 3
    /\ appBranches = << <<"b">>, <<"m">> >>

-----------------------------------------------------------------------------
(* Properties of the merge action, checked under Spec *)

\* the run called MergeBranch and returned
MergeReturned == RunReturned /\ CallsOf("MergeBranch") # <<>>

\* the positions in the log of the lines written to the stream named to
LogPositions(to) == {i \in 1..Len(ioLog) : ioLog[i].to = to}

Occurs(sub, text) ==
    \E i \in 1..(Len(text) - Len(sub) + 1) :
       \A k \in 1..Len(sub) : text[i + k - 1] = sub[k]

\* the merge failed
MergeFailed == MergeReturned /\ mergeRes.err # NilErr

\* C22 as claimed: on a failed merge with a stderr that is not empty Run
\* prints the stderr, and prints the failure's message as well only if that
\* message is not a substring of the printed stderr; with an empty stderr it
\* prints the failure's message.
C22_AsClaimed ==
    MergeFailed =>
        LET stderrOutput == TrimSpace(mergeRes.Stderr)
            message == mergeRes.err.msg \o <<"\n">>
        IN  errStream =
               IF stderrOutput = <<>> THEN << message >>
               ELSE IF ~Occurs(mergeRes.err.msg, stderrOutput)
               THEN << stderrOutput \o <<"\n">>, message >>
               ELSE << stderrOutput \o <<"\n">> >>

\* C22 as amended: on a failed merge with a stderr that is not empty Run
\* prints the stderr, and prints the failure's message as well only if the
\* printed stderr is not a substring of that message; with an empty stderr
\* it prints the failure's message.
C22_MergeFailure ==
    MergeFailed =>
        LET stderrOutput == TrimSpace(mergeRes.Stderr)
            message == mergeRes.err.msg \o <<"\n">>
        IN  errStream =
               IF stderrOutput = <<>> THEN << message >>
               ELSE IF ~Occurs(stderrOutput, mergeRes.err.msg)
               THEN << stderrOutput \o <<"\n">>, message >>
               ELSE << stderrOutput \o <<"\n">> >>

\* the failure's message holds the stderr, which is printed alone
C22_Witness ==
    /\ MergeFailed
    /\ mergeRes.Stderr = <<"w">>
    /\ mergeRes.err.msg = <<"git failed", ": ", "w">>
    /\ errStream = << <<"w", "\n">> >>


-----------------------------------------------------------------------------
\* Properties of the Navigator's failures (specification SpecNav)

QueryFailures == {ErrCurrentBranch, ErrReflog, ErrFallback}

FailedWith(err) == \E i \in 1..Len(gitFailures) : gitFailures[i] = err

\* errors.Join of the reflog failure and the fallback failure
JoinedFailure == "reflog failed\nfallback failed"

C24_AsClaimed ==
    (NavReturned /\ FailedWith(ErrReflog)) =>
        /\ Called("BranchesByCommitDate")
        /\ IF FailedWith(ErrFallback)
           THEN navErr = JoinedFailure
           ELSE /\ navErr = NoErr
                /\ results = AppendBranches(<<>>, fallbackBranches, {current},
                                            limit, 0).results

\* C25: when BranchExists answers with an error for a candidate that is
\* examined, RecentBranches returns that error and no list, and the failed
\* check is the last call it makes: no later candidate is examined.
C25_ExistsFailure ==
    (NavReturned /\ FailedWith(ErrBranchExists)) =>
        /\ gitFailures = <<ErrBranchExists>>
        /\ navErr = ErrBranchExists
        /\ results = <<>>
        /\ gitCalls[Len(gitCalls)].op = "BranchExists"

\* the check of the first of two distinct reflog candidates fails
C25_Witness ==
    /\ NavReturned
    /\ navErr = ErrBranchExists
    /\ limit = 2
    /\ Len(reflogBranches) = 2
    /\ TrimSpace(reflogBranches[2]) \notin
           {<<>>, current, TrimSpace(reflogBranches[1])}
    /\ gitCalls = << GitCall("CurrentBranch", <<>>),
                     GitCall("ReflogBranchMoves", <<>>),
                     GitCall("BranchExists", TrimSpace(reflogBranches[1])) >>


-----------------------------------------------------------------------------
\* Properties of the reflog parser (specification SpecParse)

Parsed == parsePc = "done"

\* the lines of the output that hold anything but blanks, blanks cut off
ReflogLines ==
    LET ends == {0} \cup {i \in 1..Len(parseOutput) : parseOutput[i] = "\n"}
                    \cup {Len(parseOutput) + 1}
        starts == {i \in ends : i <= Len(parseOutput)}
        next(i) == CHOOSE j \in ends : j > i /\ \A k \in ends : k > i => j <= k
        lineAt(i) == SubSeq(parseOutput, i + 1, next(i) - 1)
        Blank(l) == \A k \in 1..Len(l) : IsSpace(l[k])
        Cut(l) == LET f == CHOOSE k \in 1..Len(l) :
                               ~IsSpace(l[k]) /\ \A j \in 1..(k-1) : IsSpace(l[j])
                      t == CHOOSE k \in 1..Len(l) :
                               ~IsSpace(l[k]) /\ \A j \in (k+1)..Len(l) : IsSpace(l[j])
                  IN  SubSeq(l, f, t)
        kept == {i \in starts : ~Blank(lineAt(i))}
        nth(n) == CHOOSE i \in kept : Cardinality({j \in kept : j < i}) = n - 1
    IN  [n \in 1..Cardinality(kept) |-> Cut(lineAt(nth(n)))]

\* d is the destination a subject names: the subject is one of the three
\* switch phrasings and d is what stands after it (after the last " to "
\* of a move from a branch), without the blanks and then the quotes around it
Names(subject, d) ==
    \E p \in {prefixMoveFrom, prefixMoveTo, prefixSwitching} :
    \E from \in Len(p)..Len(subject) :
        /\ Len(subject) > Len(p)
        /\ \A k \in 1..Len(p) : subject[k] = p[k]
        /\ IF p = prefixMoveFrom
           THEN /\ from > Len(p)
                /\ subject[from] = " to "
                /\ \A k \in (from + 1)..Len(subject) : subject[k] # " to "
           ELSE from = Len(p)
        /\ \E i \in (from + 1)..Len(subject), j \in (from + 1)..Len(subject) :
              /\ i <= j
              /\ d = [k \in 1..(j - i + 1) |-> subject[i + k - 1]]
              /\ \E q \in from..(i - 1) :
                    /\ \A k \in (from + 1)..q : IsSpace(subject[k])
                    /\ \A k \in (q + 1)..(i - 1) : subject[k] \in Quotes
                    /\ q + 1 <= i - 1 \/ ~IsSpace(subject[i])
              /\ \E q \in j..Len(subject) :
                    /\ \A k \in (j + 1)..q : subject[k] \in Quotes
                    /\ \A k \in (q + 1)..Len(subject) : IsSpace(subject[k])
                    /\ q > j \/ ~IsSpace(subject[j])
              /\ subject[i] \notin Quotes
              /\ subject[j] \notin Quotes

Recognized(subject) ==
    \E i \in 1..Len(subject), j \in 1..Len(subject) :
        i <= j /\ Names(subject, SubSeq(subject, i, j))

\* the lines that are recognized, in the order of the output
RecognizedLines ==
    LET rec == {n \in 1..Len(ReflogLines) : Recognized(ReflogLines[n])}
        nth(n) == CHOOSE i \in rec : Cardinality({j \in rec : j < i}) = n - 1
    IN  [n \in 1..Cardinality(rec) |-> ReflogLines[nth(n)]]

\* C26: a subject that is none of the recognized switch phrasings gives no
\* candidate, every recognized subject gives exactly the destination it
\* names, and the candidates stand in the order of their reflog lines.
C26_Subjects ==
    Parsed =>
        /\ Len(parseBranches) = Len(RecognizedLines)
        /\ \A n \in 1..Len(parseBranches) :
              Names(RecognizedLines[n], parseBranches[n])

\* a quoted switch, an unrecognized subject between two recognized ones
C26_Witness ==
    /\ Parsed
    /\ parseOutput = prefixSwitching \o <<"'", "a", "'">> \o <<"\n">>
                     \o <<"commit:", " ", "a">> \o <<"\n">>
                     \o prefixMoveFrom \o <<"a", " to ", "b">>
    /\ parseBranches = << <<"a">>, <<"b">> >>


-----------------------------------------------------------------------------
\* Properties of whole runs of the orchestrator (specification Spec)

RunEnded == appPc = "done"

FailingSteps ==
    {"navigator", "current", "terminal", "checkout", "merge", "delete",
     "read", "declined"}

StepFailed(step) ==
    \E i \in 1..Len(appFailures) : appFailures[i].step = step

\* C27: a run in which the navigator, the current-branch lookup, the
\* terminal, the checkout, the merge, the delete, the read of the
\* confirmation or the confirmation itself fails ends with an exit code other
\* than 0 and with at least one line on the error stream, the last line the
\* run writes.
C27_FailureReported ==
    \A step \in FailingSteps :
        (RunEnded /\ StepFailed(step)) =>
            /\ exitCode # NoExit
            /\ exitCode # 0
            /\ Len(errStream) >= 1
            /\ ioLog # <<>>
            /\ ioLog[Len(ioLog)].to = "err"

\* a declined confirmation after a refusal that printed nothing
C27_Witness ==
    /\ RunEnded
    /\ appFailures = <<Failure("declined", ErrAborted)>>
    /\ exitCode = 1
    /\ errStream = << ErrAborted.msg \o <<"\n">> >>

DeleteCalls == {i \in 1..Len(appLog) : appLog[i].op = "DeleteBranch"}

\* C28: with the delete action no DeleteBranch call, forced or not, names the
\* branch that is checked out: a run that confirmed the current row makes no
\* delete call, and every delete call names a row that is not marked current.
C28_NeverCurrent ==
    /\ (selResult.AlreadyOn /\ optAction = "delete") => DeleteCalls = {}
    /\ \A i \in DeleteCalls :
          /\ appLog[i].branch # head
          /\ appLog[i].branch # appCurrent
          /\ \E k \in 1..Len(candidates) :
                /\ candidates[k].Name = appLog[i].branch
                /\ ~candidates[k].Current
          /\ \A k \in 1..Len(candidates) :
                candidates[k].Current => candidates[k].Name # appLog[i].branch

\* a forced delete of another branch after the refusal of the first
C28_Witness ==
    /\ RunEnded
    /\ Cardinality(DeleteCalls) = 2
    /\ Len(candidates) = 3
    /\ appLog[Len(appLog)].Force
    /\ appLog[Len(appLog)].branch = candidates[3].Name

\* a run that confirmed the current row under the delete action
C28_WitnessCurrent ==
    RunEnded /\ optAction = "delete" /\ selResult.AlreadyOn /\ exitCode = 0

ActionOps == {"CheckoutBranch", "MergeBranch", "DeleteBranch"}

\* C29: Run calls the Navigator, then the Git client for the current branch,
\* then the Terminal, then the action. A failure of the navigator or of the
\* current-branch lookup is printed, makes Run return 1 and leaves the
\* Terminal and the actions uncalled; an action is called only with the
\* branch the Terminal returned as selected.
C29_Order ==
    /\ \A i \in 1..Len(appLog) :
          /\ appLog[i].op = "RecentBranches" <=> i = 1
          /\ appLog[i].op = "CurrentBranch" <=> i = 2
          /\ appLog[i].op = "Select" <=> i = 3
          /\ i >= 4 =>
                /\ appLog[i].op \in ActionOps
                /\ ~selResult.Quit
                /\ ~selResult.AlreadyOn
                /\ selResult.Branch # <<>>
                /\ appLog[i].branch = selResult.Branch
    /\ \A f \in {Failure("navigator", ErrNavigator), Failure("current", ErrGit)} :
          (\E i \in 1..Len(appFailures) : appFailures[i] = f) =>
              /\ RunEnded
              /\ appFailures = <<f>>
              /\ exitCode = 1
              /\ errStream = << f.err.msg \o <<"\n">> >>
              /\ outStream = <<>>
              /\ Len(appLog) = (IF f.step = "navigator" THEN 1 ELSE 2)

\* the current-branch lookup fails after the navigator gave a list
C29_Witness ==
    /\ RunEnded
    /\ appFailures = <<Failure("current", ErrGit)>>
    /\ appBranches # <<>>
    /\ Len(appLog) = 2


-----------------------------------------------------------------------------
\* Properties of Select's renders (specification SpecUI)

Renders == Len(SelectSeq(uiOut, LAMBDA w : w.kind = "frame"))

MovesThatMoved == Len(SelectSeq(moveLog, LAMBDA moved : moved))

\* Select has rendered once and no write has failed
Rendering == uiPc \in {"loop", "returned"} /\ Renders >= 1 /\ uiRet.err # ErrWrite

\* a pass of the loop that read a movement key, no write failing
MovementPass ==
    /\ uiPc = "loop"
    /\ Len(moveLog') = Len(moveLog) + 1
    /\ uiRet'.err # ErrWrite

\* C30 as stated: every movement key read is followed by one re-render,
\* clamped or not, and the number of renders is one plus the number of
\* movement keys read.
C30_AsClaimed ==
    /\ [](Rendering => Renders = 1 + Len(moveLog))
    /\ [][MovementPass => Len(uiOut') = Len(uiOut) + 1]_vars

\* C30 as amended: a movement key that moves the cursor is followed by one
\* re-render of the list with the new cursor before the next key is read, a
\* movement key read with the cursor clamped at the last row or at row 0
\* writes nothing, and the number of renders is one plus the number of
\* movement keys that moved the cursor.
C30_Renders ==
    /\ [](Rendering => Renders = 1 + MovesThatMoved)
    /\ [][MovementPass =>
            IF index' # index
            THEN uiOut' = Append(uiOut, Frame(uiBranches, index'))
            ELSE uiOut' = uiOut]_vars

\* three rows: two movements down and a third one clamped at the last row
C30_Witness ==
    /\ uiPc = "loop"
    /\ Len(uiBranches) = 3
    /\ index = 2
    /\ moveLog = <<TRUE, TRUE, FALSE>>
    /\ Renders = 3


-----------------------------------------------------------------------------
\* Properties of the bytes Select ignores (specification SpecUI)

\* the bytes no case of the switch names
OtherBytes == Bytes \ ({"j", "k", "q", "Q", "\r", "\n", ESC} \cup ControlBytes)

\* a pass of the loop that read one byte no case names
OtherBytePass ==
    /\ uiPc = "loop"
    /\ nread' = nread + 1
    /\ Len(lastKey') = 1
    /\ lastKey'[1] \in OtherBytes

\* C31: a byte that is no movement, confirm, quit, control or escape byte
\* leaves the cursor where it is and writes nothing to the output stream, and
\* Select goes on to read the next key.
C31_Ignored ==
    [][OtherBytePass =>
          /\ index' = index
          /\ uiOut' = uiOut
          /\ moveLog' = moveLog
          /\ uiPc' = "loop"
          /\ uiRet' = uiRet
          /\ termCalls' = termCalls]_vars

\* an ignored byte read with the cursor moved off the first row
C31_Witness ==
    /\ uiPc = "loop"
    /\ index = 1
    /\ lastKey = <<"x">>
    /\ nread = 2
    /\ Len(uiOut) = 2


-----------------------------------------------------------------------------
\* Properties of the Navigator's limit (specification SpecNav)

\* the BranchExists calls among the first k calls that accepted their name
AcceptedIn(k) ==
    { i \in 1..k :
        /\ gitCalls[i].op = "BranchExists"
        /\ gitCalls[i].arg \in existing
        /\ ~(i = Len(gitCalls) /\ FailedWith(ErrBranchExists)) }

\* C32: once limit names are accepted RecentBranches calls BranchExists for
\* no further candidate, and it queries the commit-date fallback only when
\* the reflog history gave fewer than limit accepted names.
C32_StopsAtLimit ==
    /\ \A k \in 1..Len(gitCalls) :
          gitCalls[k].op \in {"BranchExists", "BranchesByCommitDate"} =>
              Cardinality(AcceptedIn(k - 1)) < limit
    /\ (NavReturned /\ navErr = NoErr /\ limit > 0) =>
          /\ Len(results) = Cardinality(AcceptedIn(Len(gitCalls)))
          /\ Len(results) <= limit
          /\ (Len(results) < limit => Called("BranchesByCommitDate"))

\* with limit 1 the first of two reflog candidates is accepted: the second
\* is not checked and the fallback is not queried
C32_Witness ==
    /\ NavReturned
    /\ limit = 1
    /\ Len(reflogBranches) = 2
    /\ TrimSpace(reflogBranches[2]) \in
           existing \ {current, TrimSpace(reflogBranches[1])}
    /\ gitCalls = << GitCall("CurrentBranch", <<>>),
                     GitCall("ReflogBranchMoves", <<>>),
                     GitCall("BranchExists", TrimSpace(reflogBranches[1])) >>
    /\ results = << TrimSpace(reflogBranches[1]) >>


-----------------------------------------------------------------------------
\* Properties of the destinations the reflog parser keeps (SpecParse)

\* the name begins with a detached-HEAD marker: HEAD, HEAD^, HEAD~1
DetachedHead(name) == name # <<>> /\ name[1] = "HEAD"

\* the name is an abbreviated commit id
RawCommit(name) == name = <<"1a2b3c4">>

\* C33 as stated: a reflog entry whose destination begins with a
\* detached-HEAD marker or is a raw commit reference gives no name to the
\* list the history query returns.
C33_AsClaimed ==
    Parsed =>
        \A i \in 1..Len(parseBranches) :
            /\ ~DetachedHead(parseBranches[i])
            /\ ~RawCommit(parseBranches[i])


-----------------------------------------------------------------------------
\* Properties of the Client's queries (specification SpecClient)

\* C34 as stated: CurrentBranch answers with an error when git printed
\* nothing for HEAD, and never with an empty branch name and no error.
C34_AsClaimed ==
    ClientReturned("CurrentBranch") =>
        /\ (cliConfigured /\ runnerLast.err = NilErr /\ TrimSpace(runnerLast.out) = <<>>)
               => cliRet.err # NilErr
        /\ cliRet.err = NilErr => cliRet.out # <<>>

ShowRefCalls == Invocations("show-ref")

\* C35: BranchExists answers false with no error and without invoking the
\* runner for an empty or blank name, false with no error when the query
\* exits with status 1, and an error for every other failure of the runner;
\* it answers true only when the query succeeded.
C35_Outcomes ==
    (ClientReturned("BranchExists") /\ cliConfigured) =>
        IF TrimSpace(cliArg) = <<>>
        THEN /\ runnerCalls = <<>>
             /\ cliRet = [out |-> Bool(FALSE), stderr |-> <<>>, err |-> NilErr]
        ELSE /\ runnerCalls = << ArgsShowRef(cliArg) >>
             /\ runnerLast.err = ErrExit("1") =>
                   cliRet = [out |-> Bool(FALSE), stderr |-> <<>>, err |-> NilErr]
             /\ runnerLast.err \in ShowRefErrors \ {ErrExit("1")} =>
                   /\ cliRet.err = runnerLast.err
                   /\ cliRet.out = Bool(FALSE)
             /\ runnerLast.err = NilErr =>
                   cliRet = [out |-> Bool(TRUE), stderr |-> <<>>, err |-> NilErr]

\* the existence query ended with an exit status other than 1
C35_Witness ==
    /\ ClientReturned("BranchExists")
    /\ cliArg = <<"a">>
    /\ runnerLast.err = ErrExit("128")
    /\ cliRet.err = ErrExit("128")


-----------------------------------------------------------------------------
\* Properties of the delete confirmation (specification Spec)

\* the confirmation of an unmerged delete was read
ConfirmationRead ==
    /\ appPc \in {"force", "done"}
    /\ delFirst.err = ErrBranchNotFullyMerged
    /\ confirm # NoConfirm
    /\ confirm.err # ErrWrite

ForcedCalls == {i \in DeleteCalls : appLog[i].Force}

\* C36: the confirmation is a yes exactly when the line read, trimmed and in
\* lower case, is "y" or "yes". An empty line and an input that ends at once
\* are a refusal and no error, a last line without its newline is read as
\* any other line, and a read error that is not the end of the input is
\* returned as the failure of the run, with no forced delete.
C36_Confirmation ==
    ConfirmationRead =>
        LET answer == ToLower(TrimSpace(confirm.line)) IN
        /\ confirm.err \in {NilErr, ErrRead}
        /\ confirm.err = NilErr =>
              /\ confirm.confirmed <=> answer \in { <<"y">>, <<"y", "e", "s">> }
              /\ confirm.confirmed =>
                    appPc = "force" \/ Cardinality(ForcedCalls) = 1
              /\ ~confirm.confirmed =>
                    /\ RunEnded
                    /\ ForcedCalls = {}
                    /\ appFailures = <<Failure("declined", ErrAborted)>>
        /\ confirm.err = ErrRead =>
              /\ ~confirm.confirmed
              /\ RunEnded
              /\ ForcedCalls = {}
              /\ exitCode = 1
              /\ appFailures = <<Failure("read", ErrRead)>>
              /\ errStream[Len(errStream)] = ErrRead.msg \o <<"\n">>

\* the input ends after "YES" with no newline: the delete is forced
C36_Witness ==
    /\ RunEnded
    /\ confirm.line = <<"Y", "E", "S">>
    /\ confirm.confirmed
    /\ Cardinality(ForcedCalls) = 1

\* an input that ends at once is a refusal
C36_WitnessEnd ==
    /\ RunEnded
    /\ ConfirmationRead
    /\ confirm = [line |-> <<>>, confirmed |-> FALSE, err |-> NilErr]

-----------------------------------------------------------------------------
(* The two navigators agree, checked under SpecCompare *)

\* C37: for every limit and every repository in which BranchExists holds
\* exactly for the names of the commit-date list of local branches, the
\* navigator that asks BranchExists for each candidate and the navigator that
\* filters the history by the set of local branches and appends the local
\* branches unchecked return the same list.
C37_SameList ==
    cmpPc = "done" => cmpVerified = cmpFiltered

\* a stale name of the history was dropped by both, and the list was
\* completed from the local branches
C37_Witness ==
    /\ cmpPc = "done"
    /\ \E i \in 1..Len(history) : history[i] \notin Range(locals)
    /\ \E i \in 1..Len(history) :
           history[i] \in Range(locals) /\ history[i] # cmpCurrent
    /\ Len(cmpFiltered) = 2
    /\ cmpFiltered[2] \in Range(locals) \ Range(history)
    /\ cmpVerified = cmpFiltered

-----------------------------------------------------------------------------
(* Select and the confirmation on one input stream, checked under
   SpecSession *)

\* the confirm key pressed on a branch that is not checked out, followed by
\* the line "y"
ConfirmThenYes ==
    /\ sesRows # <<>>
    /\ \E n \in 0..(Len(sesRows) - 1) :
           /\ ~sesRows[n + 1].Current
           /\ sesInput = [i \in 1..n |-> "j"] \o <<"\n", "y", "\n">>

\* C38: when Select and the delete confirmation read the same input stream,
\* the bytes that follow the confirm key stay available to the confirmation:
\* on an input made of the confirm key and the line "y", with a first delete
\* refused as not fully merged, main makes the forced delete and does not
\* abort.
C38_AsClaimed ==
    (sesPc = "done" /\ ConfirmThenYes /\ IsNotFullyMerged(sesFirst))
        => (sesDeletes = <<FALSE, TRUE>> /\ sesErr # ErrAborted)

-----------------------------------------------------------------------------
(* Escape sequences, checked under SpecUI *)

\* the pass of the loop that is being taken read an ESC first
EscapePass == uiPc = "loop" /\ nread' > nread /\ lastKey'[1] = ESC

\* what a pass that starts with ESC reads: ESC and a byte that is not '[',
\* ESC '[' and a third byte, or ESC and ESC '[' with the input ending behind
EscapeSequences ==
    {<<ESC, b>> : b \in Bytes \ {"["}}
        \cup {<<ESC, "[", c>> : c \in Bytes}
        \cup {<<ESC, e>> : e \in InputEnds}
        \cup {<<ESC, "[", e>> : e \in InputEnds}

\* the bytes among the entries of a pass
BytesOf(seq) == SelectSeq(seq, LAMBDA x : x \in Bytes)

\* C39: after an ESC byte Select takes the next byte, and after ESC '[' the
\* byte after it, as part of the escape sequence and not as keys: the pass
\* returns no Result whatever those bytes are ('q' and Enter included), and
\* the cursor and the output stay as they are unless the sequence is
\* ESC '[' 'A' with a row above the cursor or ESC '[' 'B' with a row below
\* it, which move the cursor by one row.
C39_Escape ==
    [][EscapePass =>
          /\ lastKey' \in EscapeSequences
          /\ nread' - nread = Len(BytesOf(lastKey'))
          /\ uiRet'.res = NoResult
          /\ uiRet'.err \in {NoUIReturn.err, ErrWrite, ErrRead}
          /\ uiRet'.err = ErrRead => lastKey'[Len(lastKey')] = "error"
          /\ (uiRet'.err = NoUIReturn.err) => uiPc' = "loop"
          /\ (index' # index \/ uiOut' # uiOut) =>
                \/ /\ lastKey' = <<ESC, "[", "A">>
                   /\ index > 0
                   /\ index' = index - 1
                \/ /\ lastKey' = <<ESC, "[", "B">>
                   /\ index < Len(uiBranches) - 1
                   /\ index' = index + 1
      ]_vars

\* ESC 'q' and ESC '[' Enter were read and Select goes on, the cursor on the
\* first row and nothing written but the first frame
C39_Witness ==
    /\ uiPc = "loop"
    /\ lastKey \in {<<ESC, "q">>, <<ESC, "[", "\r">>}
    /\ index = 0
    /\ Len(uiOut) = 1
    /\ uiRet = NoUIReturn

-----------------------------------------------------------------------------
(* Termination of Select, checked under SpecUILive *)

\* Select has returned quit and no error
ReturnedQuit ==
    uiPc = "returned" /\ uiRet = [res |-> QuitResult, err |-> NilErr]

\* Select has returned one Result and no error, or an error and no Result
OneResultOrError ==
    \/ uiRet.err = NilErr /\ uiRet.res # NoResult
    \/ uiRet.err \notin {NilErr, NoUIReturn.err} /\ uiRet.res = NoResult

\* a pass of the loop reads the bytes that follow those read before, each
\* once: the count of bytes read grows by the bytes of the pass
ReadsOnward ==
    /\ nread' >= nread
    /\ uiPc = "loop" => nread' - nread = Len(BytesOf(lastKey'))
    /\ uiPc # "loop" => nread' = nread

\* C40: on every finite input Select terminates; it reads each byte of the
\* input at most once; it returns one Result or an error, once; and when the
\* end of the input is read before a confirm or quit key, also inside an
\* escape sequence, it returns quit (uiEnded, once true, stays true, so the
\* return that the first conjunct promises is then the quit of the last).
C40_Terminates ==
    /\ <>(uiPc = "returned")
    /\ [](nread <= MaxInput)
    /\ [][ReadsOnward]_vars
    /\ [](uiPc = "returned" => OneResultOrError)
    /\ [][uiPc = "returned" => uiRet' = uiRet]_vars
    /\ [](uiEnded => (uiPc = "returned" => ReturnedQuit))

\* the whole input was read without a confirm or quit key and Select
\* returned quit
C40_Witness ==
    /\ ReturnedQuit
    /\ uiEnded
    /\ nread = MaxInput
    /\ lastKey = <<"EOF">>

\* the input ended inside an escape sequence and Select has yet to return
C40_WitnessEscape ==
    /\ uiPc = "loop"
    /\ uiEnded
    /\ lastKey \in {<<ESC, "EOF">>, <<ESC, "[", "EOF">>}

=============================================================================
